---- MODULE Spec2Model ----
(***************************************************************************)
(* Ride matching and dispatch: the ride handlers (requestRide, acceptRide, *)
(* updateRideStatus), the driver handlers (registerDriver,                 *)
(* updateAvailability, getNearbyDrivers) and the tables they share.        *)
(*                                                                         *)
(* Every handler is an async function: it runs synchronously from one      *)
(* await to the next, and each awaited storage or event-bus request is one *)
(* atomic step of the collaborator.  A call in flight is a record of       *)
(* `calls' holding its arguments, its position (pc) and the locals it      *)
(* keeps across awaits; calls of different invocations interleave freely.  *)
(*                                                                         *)
(* Units: coordinates are integers in millidegrees (one grid bucket of     *)
(* 0.01 degree is 10 units), distances are decimetres, the rating is in    *)
(* tenths, a score is scaled by 100000, fares are in cents.  Timestamps    *)
(* are the value of a logical clock that ticks at every invocation.        *)
(***************************************************************************)
EXTENDS Integers, Sequences, FiniteSets, Bags, TLC

VARIABLES rides, drivers, users, events, calls, connections, pushes,
          payments, intents, ws, isConnected, reconnectAttempts,
          pingInterval, readyState, intervals, timeouts, closedByUser

vars ==
  <<rides, drivers, users, events, calls, connections, pushes, payments,
    intents, ws, isConnected, reconnectAttempts, pingInterval, readyState,
    intervals, timeouts, closedByUser>>

\* the connections table and the transport, which only the websocket
\* service touches
wsvars == <<connections, pushes>>

\* the payments table and the payment provider, which only the payment
\* service touches
payvars == <<payments, intents>>

\* the tables, the transport and the calls of the backend
servervars ==
  <<rides, drivers, users, events, calls, connections, pushes, payments,
    intents>>

\* the WebSocket client of the web app: the fields of WebSocketService,
\* the readyState of the sockets it has created, its running ping
\* intervals, the delays of its pending reconnect timeouts, and whether
\* the last call by the application was disconnect()
clientvars ==
  <<ws, isConnected, reconnectAttempts, pingInterval, readyState, intervals,
    timeouts, closedByUser>>

(***************************************************************************)
(* Bounds of the exploration.                                              *)
(***************************************************************************)
MaxCalls == 2

\* the sockets the client may have at a time, the ping intervals that may
\* run at a time, the reconnect timeouts that may be pending at a time
MaxSockets == 3

MaxIntervals == 3

MaxTimeouts == 2

(***************************************************************************)
(* Identities.  A verified subject id is the user id and, for a driver,    *)
(* also the driver id.                                                     *)
(***************************************************************************)
Users == {"u1", "d1", "d2"}

Null == "null"
Absent == -1

\* the caller of a request that carries no Authorization header
NoHeader == "no-header"


\* connection ids, handed out by the gateway, one per transport session
ConnIds == {"k1", "k2", "k3", "k4"}

\* a connection id without an item in the connections table
\* a payment id is the uuid drawn by the call that creates the record
PaymentIds == 1..MaxCalls

NoPayment ==
  [exists |-> FALSE, rideId |-> 0, userId |-> Null, status |-> "none",
   stripePaymentIntentId |-> Absent]

NoConnection ==
  [exists |-> FALSE, userId |-> Null, userType |-> Null, connectedAt |-> Absent,
   lastActivity |-> Absent, disconnectedAt |-> Absent]

(***************************************************************************)
(* Arithmetic helpers.                                                     *)
(***************************************************************************)
RECURSIVE Newton(_, _)
Newton(n, x) ==
  LET y == (x + (n \div x)) \div 2
  IN  IF y >= x THEN x ELSE Newton(n, y)

\* Math.sqrt, rounded down to an integer
Sqrt(n) == IF n = 0 THEN 0 ELSE Newton(n, n)

\* Math.ceil(a / b) for a >= 0, b > 0
Ceil(a, b) == (a + b - 1) \div b

(***************************************************************************)
(* Tables.  A missing attribute of an item is modelled by a null value of  *)
(* the attribute's type: Null for an id, NoLoc for a location or a bucket  *)
(* key, NoTime for a timestamp, NoFare for a fare (JavaScript treats null  *)
(* and 0 alike in `!ride.actualFare'), Absent for a number.                *)
(***************************************************************************)
NoLoc == <<>>
NoTime == 0
NoFare == 0

NoDriver ==
  [exists |-> FALSE, status |-> "none", rating |-> Absent,
   totalRides |-> Absent, isActive |-> FALSE,
   location |-> NoLoc, locationHash |-> NoLoc, updatedAt |-> NoTime]

NoRide ==
  [exists |-> FALSE, userId |-> Null, driverId |-> Null, status |-> "none",
   rideType |-> "none", pickupLocation |-> NoLoc, dropoffLocation |-> NoLoc,
   estimatedDistance |-> 0, estimatedFare |-> NoFare, actualFare |-> NoFare,
   createdAt |-> NoTime, matchedAt |-> NoTime, startedAt |-> NoTime,
   completedAt |-> NoTime, updatedAt |-> NoTime]

\* the listing order of a secondary index: by id, ascending
UserOrder == <<"d1", "d2", "u1">>

Reverse(s) == [k \in 1..Len(s) |-> s[Len(s) + 1 - k]]

(***************************************************************************)
(* Geometry.  calculateDistance is the haversine formula.  The modelled    *)
(* coordinates lie within 0.1 degree of latitude 0, where cos(lat) differs *)
(* from 1 by less than 2e-6 and the formula reduces to                     *)
(* R * pi/180 * sqrt(dLat^2 + dLon^2), with R * pi/180 = 111.195 km per    *)
(* degree.  The result is in decimetres and agrees with the floating-point *)
(* value to 0.3 m on the modelled points; the square root is taken of the  *)
(* squared distance in millionths of a degree, which fits the integers of  *)
(* the checker for points at most 46 millidegrees apart.                   *)
(***************************************************************************)
MetresPerDegree == 111195

calculateDistance(lat1, lon1, lat2, lon2) ==
  LET dLat == lat2 - lat1
      dLon == lon2 - lon1
      a == (dLat * dLat) + (dLon * dLon)
      c == Sqrt(1000000 * a)
  IN  (((c \div 1000) * MetresPerDegree) \div 100)
        + (((c % 1000) * MetresPerDegree) \div 100000)

\* a radius or distance in km, in the unit of calculateDistance
Km(x) == x * 10000

\* floor(lat * 100), floor(lng * 100): the key is the pair of grid indices
generateLocationHash(lat, lng) == <<lat \div 10, lng \div 10>>

RECURSIVE Dedup(_)
Dedup(s) ==
  IF s = <<>> THEN <<>>
  ELSE LET r == Dedup(SubSeq(s, 1, Len(s) - 1))
           x == s[Len(s)]
       IN  IF \E k \in 1..Len(r) : r[k] = x THEN r ELSE Append(r, x)

gridSize == 10
KmPerDegreeX100 == 11132

generateNearbyLocationHashes(lat, lng, radiusKm) ==
  LET steps == Ceil(radiusKm * 100, KmPerDegreeX100)
      w == (2 * steps) + 1
      all == [k \in 1..(w * w) |->
                LET i == ((k - 1) \div w) - steps
                    j == ((k - 1) % w) - steps
                IN  generateLocationHash(lat + (i * gridSize),
                                         lng + (j * gridSize))]
  IN  Dedup(all)

(***************************************************************************)
(* Inputs of the handlers.                                                 *)
(***************************************************************************)
RideIds == 1..(MaxCalls + 1)

\* (mutant) the initial status passes as a target status
validStatuses_WithRequested ==
  {"requested", "en-route", "arrived", "in-progress", "completed", "cancelled"}

validStatuses == {"en-route", "arrived", "in-progress", "completed", "cancelled"}

NoBody == [pickupLocation |-> NoLoc, dropoffLocation |-> NoLoc, rideType |-> "none"]
NoQuery == [given |-> FALSE, lat |-> 0, lng |-> 0, radius |-> 0]

(***************************************************************************)
(* schemas.ride and schemas.driver (Joi): the checks the inputs can fail.  *)
(***************************************************************************)
ValidPoint(p) ==
  /\ p # NoLoc
  /\ p[1] >= -90000 /\ p[1] <= 90000
  /\ p[2] >= -180000 /\ p[2] <= 180000

ValidRideBody(b) ==
  /\ ValidPoint(b.pickupLocation)
  /\ ValidPoint(b.dropoffLocation)
  /\ b.rideType \in {"standard", "premium", "pool"}

ValidDriverBody(b) == b.licenseNumber # ""

(***************************************************************************)
(* calculateEstimatedFare, in cents, rounded down.                         *)
(***************************************************************************)
baseFare == 250

\* (mutant) every class is charged the standard rate
perKmRate_Flat(rideType) == 120

perKmRate(rideType) ==
  CASE rideType = "standard" -> 120
    [] rideType = "premium" -> 200
    [] rideType = "pool" -> 80
    [] OTHER -> 120

calculateEstimatedFare(distance, rideType) ==
  baseFare + ((distance * perKmRate(rideType)) \div Km(1))

(***************************************************************************)
(* The calls.  The logical clock ticks when a call arrives.                *)
(***************************************************************************)
InitTime == NoTime + 1

(***************************************************************************)
(* The WebSocket client as constructed.  A socket id whose readyState is   *)
(* none has not been created; 0 stands for null.                           *)
(***************************************************************************)
SocketIds == 1..MaxSockets

IntervalIds == 1..MaxIntervals

maxReconnectAttempts == 5

reconnectDelay == 1000

constructor ==
  /\ ws = 0
  /\ isConnected = FALSE
  /\ reconnectAttempts = 0
  /\ pingInterval = 0
  /\ readyState = [s \in SocketIds |-> "none"]
  /\ intervals = {}
  /\ timeouts = <<>>
  /\ closedByUser = FALSE

Clock == Len(calls) + 1

NewCall(op, user) ==
  [op |-> op, user |-> user, rideId |-> 0, status |-> "none",
   location |-> NoLoc, body |-> NoBody, query |-> NoQuery,
   pc |-> "start", ride |-> NoRide, now |-> Len(calls) + 2,
   code |-> 0, error |-> "none", out |-> <<>>]

\* createResponse(statusCode, ...): the call returns
Response(call, code, error) ==
  [call EXCEPT !.pc = "done", !.code = code, !.error = error]

InFlight(c) == c \in DOMAIN calls /\ calls[c].pc # "done"

\* the keys of an event detail; a key that a detail does not carry reads
\* as none (no detail carries fromStatus)
NoEvent ==
  [type |-> "none", rideId |-> 0, userId |-> Null, driverId |-> Null,
   status |-> "none", fromStatus |-> "none"]

\* eventbridge.putEvents: the bus holds the published events, unordered
publishEvent(type, detail) ==
  events' = events (+) SetToBag({[detail EXCEPT !.type = type]})

\* eventbridge.putEvents fails: publishEvent logs and rethrows, and the
\* catch of the handler that awaits it answers 500
PublishingPcs == {"rr_publish", "ar_publish", "us_publish"}

publishEvent_rejected(c) ==
  /\ InFlight(c) /\ calls[c].pc \in PublishingPcs
  /\ calls' = [calls EXCEPT ![c] =
                 Response(calls[c], 500, "InternalServerError")]
  /\ UNCHANGED <<rides, drivers, users, events, connections, pushes>>
  /\ UNCHANGED payvars
  /\ UNCHANGED clientvars

(***************************************************************************)
(* ride-service: requestRide.                                              *)
(***************************************************************************)
\* a ride id that no ride and no call holds yet
uuidv4 ==
  1 + Cardinality({r \in DOMAIN rides : rides[r].exists})
    + Cardinality({c \in DOMAIN calls : calls[c].op = "requestRide"
                                          /\ calls[c].pc = "rr_put"})

\* UserRidesIndex: userId = :userId AND status = :status
QueryUserRides(userId, status) ==
  {r \in DOMAIN rides : rides[r].exists /\ rides[r].userId = userId
                         /\ rides[r].status = status}

requestRide(u, b) ==
  /\ Len(calls) < MaxCalls
  /\ LET call == [NewCall("requestRide", u) EXCEPT !.body = b]
     IN  calls' = Append(calls,
                    IF ValidRideBody(b)
                    THEN [call EXCEPT !.pc = "rr_query"]
                    ELSE Response(call, 400, "ValidationError"))
  /\ UNCHANGED <<rides, drivers, users, events>>
  /\ UNCHANGED wsvars
  /\ UNCHANGED payvars
  /\ UNCHANGED clientvars

requestRide_query(c) ==
  /\ InFlight(c) /\ calls[c].pc = "rr_query"
  /\ LET call == calls[c]
         activeRide == QueryUserRides(call.user, "active")
         b == call.body
         estimatedDistance ==
           calculateDistance(b.pickupLocation[1], b.pickupLocation[2],
                             b.dropoffLocation[1], b.dropoffLocation[2])
         estimatedFare == calculateEstimatedFare(estimatedDistance, b.rideType)
         ride == [exists |-> TRUE, userId |-> call.user, driverId |-> Null,
                  status |-> "requested", rideType |-> b.rideType,
                  pickupLocation |-> b.pickupLocation,
                  dropoffLocation |-> b.dropoffLocation,
                  estimatedDistance |-> estimatedDistance,
                  estimatedFare |-> estimatedFare, actualFare |-> NoFare,
                  createdAt |-> Clock, matchedAt |-> NoTime,
                  startedAt |-> NoTime, completedAt |-> NoTime,
                  updatedAt |-> NoTime]
     IN  calls' = [calls EXCEPT ![c] =
                    IF activeRide # {}
                    THEN Response(call, 409, "DuplicateActiveRide")
                    ELSE [call EXCEPT !.pc = "rr_put", !.rideId = uuidv4,
                                      !.ride = ride]]
  /\ UNCHANGED <<rides, drivers, users, events>>
  /\ UNCHANGED wsvars
  /\ UNCHANGED payvars
  /\ UNCHANGED clientvars

requestRide_put(c) ==
  /\ InFlight(c) /\ calls[c].pc = "rr_put"
  /\ rides' = [rides EXCEPT ![calls[c].rideId] = calls[c].ride]
  /\ calls' = [calls EXCEPT ![c].pc = "rr_publish"]
  /\ UNCHANGED <<drivers, users, events>>
  /\ UNCHANGED wsvars
  /\ UNCHANGED payvars
  /\ UNCHANGED clientvars

requestRide_publish(c) ==
  /\ InFlight(c) /\ calls[c].pc = "rr_publish"
  /\ publishEvent("Ride Requested",
       [NoEvent EXCEPT !.rideId = calls[c].rideId, !.userId = calls[c].user])
  /\ calls' = [calls EXCEPT ![c] = Response(calls[c], 201, "none")]
  /\ UNCHANGED <<rides, drivers, users>>
  /\ UNCHANGED wsvars
  /\ UNCHANGED payvars
  /\ UNCHANGED clientvars

(***************************************************************************)
(* ride-service: acceptRide.  The ride is read, then written with an       *)
(* unconditional update; the driver likewise.                              *)
(***************************************************************************)
acceptRide(u, r) ==
  /\ Len(calls) < MaxCalls
  /\ calls' = Append(calls, [NewCall("acceptRide", u) EXCEPT
                               !.rideId = r, !.pc = "ar_getRide"])
  /\ UNCHANGED <<rides, drivers, users, events>>
  /\ UNCHANGED wsvars
  /\ UNCHANGED payvars
  /\ UNCHANGED clientvars

acceptRide_getRide(c) ==
  /\ InFlight(c) /\ calls[c].pc = "ar_getRide"
  /\ LET call == calls[c]
         ride == rides[call.rideId]
     IN  calls' = [calls EXCEPT ![c] =
                    IF ~ride.exists
                    THEN Response(call, 404, "RideNotFound")
                    ELSE IF ride.status # "requested"
                    THEN Response(call, 409, "AlreadyMatched")
                    ELSE [call EXCEPT !.pc = "ar_getDriver", !.ride = ride]]
  /\ UNCHANGED <<rides, drivers, users, events>>
  /\ UNCHANGED wsvars
  /\ UNCHANGED payvars
  /\ UNCHANGED clientvars

\* (mutant) only the existence of the driver item is tested
acceptRide_getDriver_AnyStatus(c) ==
  /\ InFlight(c) /\ calls[c].pc = "ar_getDriver"
  /\ LET call == calls[c]
         driver == drivers[call.user]
     IN  calls' = [calls EXCEPT ![c] =
                    IF ~driver.exists
                    THEN Response(call, 409, "DriverUnavailable")
                    ELSE [call EXCEPT !.pc = "ar_updateRide", !.now = Clock]]
  /\ UNCHANGED <<rides, drivers, users, events>>
  /\ UNCHANGED wsvars
  /\ UNCHANGED payvars
  /\ UNCHANGED clientvars

acceptRide_getDriver(c) ==
  /\ InFlight(c) /\ calls[c].pc = "ar_getDriver"
  /\ LET call == calls[c]
         driver == drivers[call.user]
     IN  calls' = [calls EXCEPT ![c] =
                    IF ~driver.exists \/ driver.status # "available"
                    THEN Response(call, 409, "DriverUnavailable")
                    ELSE [call EXCEPT !.pc = "ar_updateRide", !.now = Clock]]
  /\ UNCHANGED <<rides, drivers, users, events>>
  /\ UNCHANGED wsvars
  /\ UNCHANGED payvars
  /\ UNCHANGED clientvars

acceptRide_updateRide(c) ==
  /\ InFlight(c) /\ calls[c].pc = "ar_updateRide"
  /\ rides' = [rides EXCEPT ![calls[c].rideId] =
                 [@ EXCEPT !.exists = TRUE, !.driverId = calls[c].user,
                           !.status = "matched", !.matchedAt = calls[c].now]]
  /\ calls' = [calls EXCEPT ![c].pc = "ar_updateDriver", ![c].now = Clock]
  /\ UNCHANGED <<drivers, users, events>>
  /\ UNCHANGED wsvars
  /\ UNCHANGED payvars
  /\ UNCHANGED clientvars

acceptRide_updateDriver(c) ==
  /\ InFlight(c) /\ calls[c].pc = "ar_updateDriver"
  /\ drivers' = [drivers EXCEPT ![calls[c].user] =
                   [@ EXCEPT !.exists = TRUE, !.status = "busy",
                             !.updatedAt = calls[c].now]]
  /\ calls' = [calls EXCEPT ![c].pc = "ar_publish"]
  /\ UNCHANGED <<rides, users, events>>
  /\ UNCHANGED wsvars
  /\ UNCHANGED payvars
  /\ UNCHANGED clientvars

acceptRide_publish(c) ==
  /\ InFlight(c) /\ calls[c].pc = "ar_publish"
  /\ publishEvent("Ride Matched",
       [NoEvent EXCEPT !.rideId = calls[c].rideId,
                       !.driverId = calls[c].user,
                       !.userId = calls[c].ride.userId])
  /\ calls' = [calls EXCEPT ![c] = Response(calls[c], 200, "none")]
  /\ UNCHANGED <<rides, drivers, users>>
  /\ UNCHANGED wsvars
  /\ UNCHANGED payvars
  /\ UNCHANGED clientvars

(***************************************************************************)
(* ride-service: updateRideStatus.                                         *)
(***************************************************************************)
updateRideStatus(u, r, status) ==
  /\ Len(calls) < MaxCalls
  /\ LET call == [NewCall("updateRideStatus", u) EXCEPT
                    !.rideId = r, !.status = status]
     IN  calls' = Append(calls,
                    IF status \notin validStatuses
                    THEN Response(call, 400, "ValidationError")
                    ELSE [call EXCEPT !.pc = "us_getRide"])
  /\ UNCHANGED <<rides, drivers, users, events>>
  /\ UNCHANGED wsvars
  /\ UNCHANGED payvars
  /\ UNCHANGED clientvars

\* (mutant) a ride without a driver may be updated by anyone
updateRideStatus_getRide_OpenUntilMatched(c) ==
  /\ InFlight(c) /\ calls[c].pc = "us_getRide"
  /\ LET call == calls[c]
         ride == rides[call.rideId]
     IN  calls' = [calls EXCEPT ![c] =
                    IF ~ride.exists
                    THEN Response(call, 404, "RideNotFound")
                    ELSE IF /\ ride.userId # call.user
                            /\ ride.driverId # call.user
                            /\ ride.driverId # Null
                    THEN Response(call, 403, "Unauthorized")
                    ELSE [call EXCEPT !.pc = "us_updateRide", !.ride = ride,
                                      !.now = Clock]]
  /\ UNCHANGED <<rides, drivers, users, events>>
  /\ UNCHANGED wsvars
  /\ UNCHANGED payvars
  /\ UNCHANGED clientvars

updateRideStatus_getRide(c) ==
  /\ InFlight(c) /\ calls[c].pc = "us_getRide"
  /\ LET call == calls[c]
         ride == rides[call.rideId]
     IN  calls' = [calls EXCEPT ![c] =
                    IF ~ride.exists
                    THEN Response(call, 404, "RideNotFound")
                    ELSE IF ride.userId # call.user /\ ride.driverId # call.user
                    THEN Response(call, 403, "Unauthorized")
                    ELSE [call EXCEPT !.pc = "us_updateRide", !.ride = ride,
                                      !.now = Clock]]
  /\ UNCHANGED <<rides, drivers, users, events>>
  /\ UNCHANGED wsvars
  /\ UNCHANGED payvars
  /\ UNCHANGED clientvars

\* (mutant) a cancellation only touches updatedAt
RideUpdates_CancelKeepsStatus(old, call) ==
  IF call.status = "cancelled"
  THEN [old EXCEPT !.exists = TRUE, !.updatedAt = call.now]
  ELSE LET u1 == [old EXCEPT !.exists = TRUE, !.status = call.status,
                             !.updatedAt = call.now]
       IN  IF call.status = "in-progress"
           THEN [u1 EXCEPT !.startedAt = call.now]
           ELSE IF call.status = "completed"
           THEN IF call.ride.actualFare = NoFare
                THEN [u1 EXCEPT !.completedAt = call.now,
                                !.actualFare = call.ride.estimatedFare]
                ELSE [u1 EXCEPT !.completedAt = call.now]
           ELSE u1

\* the SET expression built from `updates'
RideUpdates(old, call) ==
  LET u1 == [old EXCEPT !.exists = TRUE, !.status = call.status,
                        !.updatedAt = call.now]
  IN  IF call.status = "in-progress"
      THEN [u1 EXCEPT !.startedAt = call.now]
      ELSE IF call.status = "completed"
      THEN IF call.ride.actualFare = NoFare
           THEN [u1 EXCEPT !.completedAt = call.now,
                           !.actualFare = call.ride.estimatedFare]
           ELSE [u1 EXCEPT !.completedAt = call.now]
      ELSE u1

updateRideStatus_updateRide(c) ==
  /\ InFlight(c) /\ calls[c].pc = "us_updateRide"
  /\ rides' = [rides EXCEPT ![calls[c].rideId] = RideUpdates(@, calls[c])]
  /\ calls' = [calls EXCEPT
                 ![c].pc = IF calls[c].status = "completed"
                              /\ calls[c].ride.driverId # Null
                           THEN "us_updateDriver" ELSE "us_publish",
                 ![c].now = Clock]
  /\ UNCHANGED <<drivers, users, events>>
  /\ UNCHANGED wsvars
  /\ UNCHANGED payvars
  /\ UNCHANGED clientvars

\* (mutant) the driver's count is raised and its status is left as it is
updateRideStatus_updateDriver_CountOnly(c) ==
  /\ InFlight(c) /\ calls[c].pc = "us_updateDriver"
  /\ LET d == calls[c].ride.driverId
     IN  IF drivers[d].totalRides = Absent
         THEN /\ calls' = [calls EXCEPT ![c] =
                             Response(calls[c], 500, "InternalServerError")]
              /\ UNCHANGED drivers
         ELSE /\ drivers' = [drivers EXCEPT ![d] =
                               [@ EXCEPT !.totalRides = @ + 1,
                                         !.updatedAt = calls[c].now]]
              /\ calls' = [calls EXCEPT ![c].pc = "us_publish"]
  /\ UNCHANGED <<rides, users, events>>
  /\ UNCHANGED wsvars
  /\ UNCHANGED payvars
  /\ UNCHANGED clientvars

\* totalRides = totalRides + :increment fails on an item without totalRides
updateRideStatus_updateDriver(c) ==
  /\ InFlight(c) /\ calls[c].pc = "us_updateDriver"
  /\ LET d == calls[c].ride.driverId
     IN  IF drivers[d].totalRides = Absent
         THEN /\ calls' = [calls EXCEPT ![c] =
                             Response(calls[c], 500, "InternalServerError")]
              /\ UNCHANGED drivers
         ELSE /\ drivers' = [drivers EXCEPT ![d] =
                               [@ EXCEPT !.status = "available",
                                         !.totalRides = @ + 1,
                                         !.updatedAt = calls[c].now]]
              /\ calls' = [calls EXCEPT ![c].pc = "us_publish"]
  /\ UNCHANGED <<rides, users, events>>
  /\ UNCHANGED wsvars
  /\ UNCHANGED payvars
  /\ UNCHANGED clientvars

updateRideStatus_publish(c) ==
  /\ InFlight(c) /\ calls[c].pc = "us_publish"
  /\ publishEvent("Ride Status Changed",
       [NoEvent EXCEPT !.rideId = calls[c].rideId,
                       !.status = calls[c].status,
                       !.userId = calls[c].ride.userId,
                       !.driverId = calls[c].ride.driverId])
  /\ calls' = [calls EXCEPT ![c] = Response(calls[c], 200, "none")]
  /\ UNCHANGED <<rides, drivers, users>>
  /\ UNCHANGED wsvars
  /\ UNCHANGED payvars
  /\ UNCHANGED clientvars

(***************************************************************************)
(* driver-service: registerDriver.                                         *)
(***************************************************************************)
registerDriver(u, b) ==
  /\ Len(calls) < MaxCalls
  /\ LET call == NewCall("registerDriver", u)
     IN  calls' = Append(calls,
                    IF ValidDriverBody(b)
                    THEN [call EXCEPT !.pc = "rd_get"]
                    ELSE Response(call, 400, "ValidationError"))
  /\ UNCHANGED <<rides, drivers, users, events>>
  /\ UNCHANGED wsvars
  /\ UNCHANGED payvars
  /\ UNCHANGED clientvars

registerDriver_get(c) ==
  /\ InFlight(c) /\ calls[c].pc = "rd_get"
  /\ calls' = [calls EXCEPT ![c] =
                 IF drivers[calls[c].user].exists
                 THEN Response(calls[c], 409, "DriverExists")
                 ELSE [calls[c] EXCEPT !.pc = "rd_put", !.now = Clock]]
  /\ UNCHANGED <<rides, drivers, users, events>>
  /\ UNCHANGED wsvars
  /\ UNCHANGED payvars
  /\ UNCHANGED clientvars

registerDriver_put(c) ==
  /\ InFlight(c) /\ calls[c].pc = "rd_put"
  /\ drivers' = [drivers EXCEPT ![calls[c].user] =
                   [exists |-> TRUE, status |-> "offline", rating |-> 50,
                    totalRides |-> 0, isActive |-> TRUE,
                    location |-> NoLoc, locationHash |-> NoLoc,
                    updatedAt |-> NoTime]]
  /\ calls' = [calls EXCEPT ![c].pc = "rd_updateUser", ![c].now = Clock]
  /\ UNCHANGED <<rides, users, events>>
  /\ UNCHANGED wsvars
  /\ UNCHANGED payvars
  /\ UNCHANGED clientvars

registerDriver_updateUser(c) ==
  /\ InFlight(c) /\ calls[c].pc = "rd_updateUser"
  /\ users' = [users EXCEPT ![calls[c].user] =
                 [@ EXCEPT !.exists = TRUE, !.userType = "driver",
                           !.updatedAt = calls[c].now]]
  /\ calls' = [calls EXCEPT ![c].pc = "rd_publish"]
  /\ UNCHANGED <<rides, drivers, events>>
  /\ UNCHANGED wsvars
  /\ UNCHANGED payvars
  /\ UNCHANGED clientvars

registerDriver_publish(c) ==
  /\ InFlight(c) /\ calls[c].pc = "rd_publish"
  /\ publishEvent("Driver Registered",
       [NoEvent EXCEPT !.driverId = calls[c].user, !.userId = calls[c].user])
  /\ calls' = [calls EXCEPT ![c] = Response(calls[c], 201, "none")]
  /\ UNCHANGED <<rides, drivers, users>>
  /\ UNCHANGED wsvars
  /\ UNCHANGED payvars
  /\ UNCHANGED clientvars

(***************************************************************************)
(* driver-service: updateAvailability.  The location is written only when  *)
(* it and both coordinates are truthy (a coordinate 0 is not); the update  *)
(* creates the item when the driver has none.                              *)
(***************************************************************************)
updateAvailability(u, status, location) ==
  /\ Len(calls) < MaxCalls
  /\ LET call == [NewCall("updateAvailability", u) EXCEPT
                    !.status = status, !.location = location]
     IN  calls' = Append(calls,
                    IF status \notin {"offline", "available", "busy"}
                    THEN Response(call, 400, "ValidationError")
                    ELSE [call EXCEPT !.pc = "ua_update"])
  /\ UNCHANGED <<rides, drivers, users, events>>
  /\ UNCHANGED wsvars
  /\ UNCHANGED payvars
  /\ UNCHANGED clientvars

Truthy(location) == location # NoLoc /\ location[1] # 0 /\ location[2] # 0

\* (mutant) the location is written without its bucket key
updateAvailability_update_LocationOnly(c) ==
  /\ InFlight(c) /\ calls[c].pc = "ua_update"
  /\ LET call == calls[c]
         u1 == [drivers[call.user] EXCEPT !.exists = TRUE,
                  !.status = call.status, !.updatedAt = call.now]
     IN  drivers' = [drivers EXCEPT ![call.user] =
                       IF Truthy(call.location)
                       THEN [u1 EXCEPT !.location = call.location]
                       ELSE u1]
  /\ calls' = [calls EXCEPT ![c].pc = "ua_publish"]
  /\ UNCHANGED <<rides, users, events>>
  /\ UNCHANGED wsvars
  /\ UNCHANGED payvars
  /\ UNCHANGED clientvars

updateAvailability_update(c) ==
  /\ InFlight(c) /\ calls[c].pc = "ua_update"
  /\ LET call == calls[c]
         u1 == [drivers[call.user] EXCEPT !.exists = TRUE,
                  !.status = call.status, !.updatedAt = call.now]
     IN  drivers' = [drivers EXCEPT ![call.user] =
                       IF Truthy(call.location)
                       THEN [u1 EXCEPT !.location = call.location,
                                       !.locationHash =
                                          generateLocationHash(call.location[1],
                                                               call.location[2])]
                       ELSE u1]
  /\ calls' = [calls EXCEPT ![c].pc = "ua_publish"]
  /\ UNCHANGED <<rides, users, events>>
  /\ UNCHANGED wsvars
  /\ UNCHANGED payvars
  /\ UNCHANGED clientvars

updateAvailability_publish(c) ==
  /\ InFlight(c) /\ calls[c].pc = "ua_publish"
  /\ publishEvent("Driver Availability Changed",
       [NoEvent EXCEPT !.driverId = calls[c].user, !.status = calls[c].status])
  /\ calls' = [calls EXCEPT ![c] = Response(calls[c], 200, "none")]
  /\ UNCHANGED <<rides, drivers, users>>
  /\ UNCHANGED wsvars
  /\ UNCHANGED payvars
  /\ UNCHANGED clientvars

(***************************************************************************)
(* driver-service: getNearbyDrivers.  `table' is the drivers table and     *)
(* `order' the order in which the index lists the items of one bucket.     *)
(***************************************************************************)
MaxResults == 10

\* (mutant) the query without its FilterExpression
QueryLocationIndex_Unfiltered(table, hash, order) ==
  SelectSeq(order, LAMBDA d : table[d].exists /\ table[d].locationHash = hash)

\* LocationIndex: locationHash = :hash, filtered on status and isActive
QueryLocationIndex(table, hash, order) ==
  SelectSeq(order, LAMBDA d : /\ table[d].exists
                              /\ table[d].locationHash = hash
                              /\ table[d].status = "available"
                              /\ table[d].isActive = TRUE)

\* (mutant) every located item of a queried bucket passes
validDrivers_BucketOnly(table, items, lat, lng, radius) ==
  SelectSeq(items, LAMBDA d : table[d].location # NoLoc)

\* the items of one bucket that pass the distance filter
validDrivers(table, items, lat, lng, radius) ==
  SelectSeq(items, LAMBDA d :
    /\ table[d].location # NoLoc
    /\ calculateDistance(lat, lng, table[d].location[1], table[d].location[2])
         <= Km(radius))

RECURSIVE nearbyDrivers(_, _, _, _, _, _)
nearbyDrivers(table, hashes, lat, lng, radius, order) ==
  IF hashes = <<>> THEN <<>>
  ELSE nearbyDrivers(table, SubSeq(hashes, 1, Len(hashes) - 1),
                     lat, lng, radius, order)
       \o validDrivers(table,
                       QueryLocationIndex(table, hashes[Len(hashes)], order),
                       lat, lng, radius)

\* (rating * 0.3) - (distance * 0.7), times 100000
Score(item) == (3000 * item.rating) - (7 * item.distance)

\* Array.prototype.sort with the comparator scoreB - scoreA (stable)
RECURSIVE SortByScore(_)
SortByScore(s) ==
  IF s = <<>> THEN <<>>
  ELSE LET t == SortByScore(SubSeq(s, 1, Len(s) - 1))
           x == s[Len(s)]
           k == Cardinality({n \in 1..Len(t) : Score(t[n]) >= Score(x)})
       IN  SubSeq(t, 1, k) \o <<x>> \o SubSeq(t, k + 1, Len(t))

sortedDrivers(table, lat, lng, radius, order) ==
  LET found == nearbyDrivers(table,
                 generateNearbyLocationHashes(lat, lng, radius),
                 lat, lng, radius, order)
      withDistance ==
        [k \in 1..Len(found) |->
           [driverId |-> found[k], rating |-> table[found[k]].rating,
            location |-> table[found[k]].location,
            distance |-> calculateDistance(lat, lng,
                           table[found[k]].location[1],
                           table[found[k]].location[2])]]
      sorted == SortByScore(withDistance)
  IN  SubSeq(sorted, 1, IF Len(sorted) < MaxResults THEN Len(sorted)
                                                      ELSE MaxResults)

getNearbyDrivers(q, order) ==
  /\ Len(calls) < MaxCalls
  /\ LET call == [NewCall("getNearbyDrivers", Null) EXCEPT !.query = q]
     IN  calls' = Append(calls,
                    IF ~q.given
                    THEN Response(call, 400, "ValidationError")
                    ELSE Response([call EXCEPT !.out =
                                     sortedDrivers(drivers, q.lat, q.lng,
                                                   q.radius, order)],
                                  200, "none"))
  /\ UNCHANGED <<rides, drivers, users, events>>
  /\ UNCHANGED wsvars
  /\ UNCHANGED payvars
  /\ UNCHANGED clientvars

(***************************************************************************)
(* The system.  It starts with two registered drivers that went available  *)
(* at their locations, a rider without a driver profile, and one ride that *)
(* the rider has requested.                                                *)
(***************************************************************************)
InitDriver(location) ==
  [exists |-> TRUE, status |-> "available", rating |-> 50,
   totalRides |-> 0, isActive |-> TRUE, location |-> location,
   locationHash |-> generateLocationHash(location[1], location[2]),
   updatedAt |-> InitTime]

InitRide ==
  [exists |-> TRUE, userId |-> "u1", driverId |-> Null,
   status |-> "requested", rideType |-> "standard",
   pickupLocation |-> <<5, 5>>, dropoffLocation |-> <<35, 5>>,
   estimatedDistance |-> calculateDistance(5, 5, 35, 5),
   estimatedFare |->
     calculateEstimatedFare(calculateDistance(5, 5, 35, 5), "standard"),
   actualFare |-> NoFare, createdAt |-> InitTime, matchedAt |-> NoTime,
   startedAt |-> NoTime, completedAt |-> NoTime, updatedAt |-> NoTime]

Init ==
  /\ rides = [r \in RideIds |-> IF r = 1 THEN InitRide ELSE NoRide]
  /\ drivers = [u \in Users |->
                  IF u = "d1" THEN InitDriver(<<5, 5>>)
                  ELSE IF u = "d2" THEN InitDriver(<<19, 5>>)
                  ELSE NoDriver]
  /\ users = [u \in Users |->
                [exists |-> TRUE,
                 userType |-> IF u = "u1" THEN "rider" ELSE "driver",
                 updatedAt |-> InitTime]]
  /\ events = EmptyBag
  /\ calls = <<>>
  /\ connections = [k \in ConnIds |-> NoConnection]
  /\ pushes = <<>>
  /\ payments = [p \in PaymentIds |-> NoPayment]
  /\ intents = <<>>
  /\ constructor

(***************************************************************************)
(* The requests that arrive.  Every handler takes any verified user and    *)
(* any argument; the explored requests are these.                          *)
(***************************************************************************)
ValidRide ==
  [pickupLocation |-> <<5, 5>>, dropoffLocation |-> <<35, 5>>,
   rideType |-> "standard"]

InvalidRide ==
  [pickupLocation |-> <<91000, 5>>, dropoffLocation |-> <<35, 5>>,
   rideType |-> "standard"]

PremiumRide ==
  [pickupLocation |-> <<5, 5>>, dropoffLocation |-> <<5, 25>>,
   rideType |-> "premium"]

PoolRide ==
  [pickupLocation |-> <<12, 5>>, dropoffLocation |-> <<35, 5>>,
   rideType |-> "pool"]

RequestInputs ==
  {<<"u1", ValidRide>>, <<"u1", InvalidRide>>, <<"u1", PremiumRide>>,
   <<"d1", PoolRide>>}

AcceptInputs == (Users \X {1}) \cup {<<"d1", 2>>}

UpdateInputs ==
  (Users \X {1} \X validStatuses)
    \cup {<<"u1", 2, "completed">>, <<"u1", 2, "cancelled">>,
          <<"u1", 1, "requested">>}

RegisterInputs ==
  {<<"u1", [licenseNumber |-> "L1"]>>, <<"u1", [licenseNumber |-> ""]>>,
   <<"d1", [licenseNumber |-> "L1"]>>}

AvailabilityInputs ==
  ({"d1", "d2"} \X {"offline", "available", "busy"} \X {NoLoc})
    \cup ({"d2"} \X {"available"} \X {<<35, 5>>, <<12, 5>>})
    \cup {<<"u1", "available", <<12, 5>>>>, <<"d1", "available", <<0, 5>>>>,
          <<"d1", "away", NoLoc>>}

Queries ==
  {[given |-> TRUE, lat |-> 5, lng |-> 5, radius |-> 1],
   [given |-> TRUE, lat |-> 5, lng |-> 5, radius |-> 5],
   [given |-> FALSE, lat |-> 5, lng |-> 5, radius |-> 5]}

\* the orders in which the location index may list the drivers of a bucket
IndexOrders == {UserOrder, Reverse(UserOrder)}

ProceedRequest(c) ==
  \/ requestRide_query(c)
  \/ requestRide_put(c)
  \/ requestRide_publish(c)

ProceedAccept(c) ==
  \/ acceptRide_getRide(c)
  \/ acceptRide_getDriver(c)
  \/ acceptRide_updateRide(c)
  \/ acceptRide_updateDriver(c)
  \/ acceptRide_publish(c)

ProceedUpdate(c) ==
  \/ updateRideStatus_getRide(c)
  \/ updateRideStatus_updateRide(c)
  \/ updateRideStatus_updateDriver(c)
  \/ updateRideStatus_publish(c)

ProceedRegister(c) ==
  \/ registerDriver_get(c)
  \/ registerDriver_put(c)
  \/ registerDriver_updateUser(c)
  \/ registerDriver_publish(c)

ProceedAvailability(c) ==
  \/ updateAvailability_update(c)
  \/ updateAvailability_publish(c)

(***************************************************************************)
(* The ride service: calls of requestRide, acceptRide and updateRideStatus *)
(* arrive in any order and proceed concurrently.                           *)
(***************************************************************************)
Next ==
  \/ \E i \in RequestInputs : requestRide(i[1], i[2])
  \/ \E i \in AcceptInputs : acceptRide(i[1], i[2])
  \/ \E i \in UpdateInputs : updateRideStatus(i[1], i[2], i[3])
  \/ \E c \in 1..MaxCalls : ProceedRequest(c)
  \/ \E c \in 1..MaxCalls : ProceedAccept(c)
  \/ \E c \in 1..MaxCalls : ProceedUpdate(c)
  \/ \E c \in 1..MaxCalls : publishEvent_rejected(c)

Spec == Init /\ [][Next]_vars

(***************************************************************************)
(* The driver service and the matching path: drivers register, change      *)
(* availability and location, accept the requested ride and the rider      *)
(* ends it, while getNearbyDrivers is queried.                             *)
(***************************************************************************)
GeoAcceptInputs == {<<"d1", 1>>, <<"d2", 1>>}

GeoUpdateInputs == {<<"u1", 1, "completed">>, <<"u1", 1, "cancelled">>}

NextGeo ==
  \/ \E i \in RegisterInputs : registerDriver(i[1], i[2])
  \/ \E i \in AvailabilityInputs : updateAvailability(i[1], i[2], i[3])
  \/ \E q \in Queries, order \in IndexOrders : getNearbyDrivers(q, order)
  \/ \E i \in GeoAcceptInputs : acceptRide(i[1], i[2])
  \/ \E i \in GeoUpdateInputs : updateRideStatus(i[1], i[2], i[3])
  \/ \E c \in 1..MaxCalls : ProceedRegister(c)
  \/ \E c \in 1..MaxCalls : ProceedAvailability(c)
  \/ \E c \in 1..MaxCalls : ProceedAccept(c)
  \/ \E c \in 1..MaxCalls : ProceedUpdate(c)

SpecGeo == Init /\ [][NextGeo]_vars

(***************************************************************************)
(* The ranking of a fleet: more drivers than getNearbyDrivers returns,     *)
(* all registered and available at locations around the query point; they  *)
(* move or go offline while the fleet is queried.                          *)
(***************************************************************************)
FleetSize == 11

Fleet == 1..FleetSize

FleetPoint(i) == <<((7 * i) % 30) - 9, 5>>

FleetOrder == [i \in Fleet |-> i]

FleetOrders == {FleetOrder, Reverse(FleetOrder)}

FleetAvailabilityInputs ==
  (Fleet \X {"available"} \X {<<21, 5>>}) \cup (Fleet \X {"offline"} \X {NoLoc})

FleetQueries ==
  {[given |-> TRUE, lat |-> 9, lng |-> 5, radius |-> 1],
   [given |-> TRUE, lat |-> 9, lng |-> 5, radius |-> 5]}

InitRank ==
  /\ rides = [r \in RideIds |-> NoRide]
  /\ drivers = [i \in Fleet |-> InitDriver(FleetPoint(i))]
  /\ users = [i \in Fleet |->
                [exists |-> TRUE, userType |-> "driver", updatedAt |-> InitTime]]
  /\ events = EmptyBag
  /\ calls = <<>>
  /\ connections = [k \in ConnIds |-> NoConnection]
  /\ pushes = <<>>
  /\ payments = [p \in PaymentIds |-> NoPayment]
  /\ intents = <<>>
  /\ constructor

NextRank ==
  \/ \E i \in FleetAvailabilityInputs : updateAvailability(i[1], i[2], i[3])
  \/ \E q \in FleetQueries, order \in FleetOrders : getNearbyDrivers(q, order)
  \/ \E c \in 1..MaxCalls : ProceedAvailability(c)

SpecRank == InitRank /\ [][NextRank]_vars

(***************************************************************************)
(* websocket-service.  A connection item holds its owner, its connect,     *)
(* last-activity and disconnect time; the attribute disconnectedAt is      *)
(* Absent while the connection is live.  `pushes' is the log of the        *)
(* postToConnection requests made to the transport, in order, each with    *)
(* the transport's answer.                                                 *)
(***************************************************************************)
WsCall(op, k) ==
  [op |-> op, connectionId |-> k, action |-> "none", user |-> Null,
   userType |-> Null, rideId |-> 0, pc |-> "start", now |-> Len(calls) + 2,
   code |-> 0, error |-> "none", type |-> "none", targets |-> <<>>,
   conns |-> <<>>]

\* the order in which a query lists the items of the connections table
ConnOrder == <<"k1", "k2", "k3", "k4">>

\* the answers of postToConnection: delivered, 410/403, any other error
Results == {"ok", "gone", "transient"}

\* connect: the item is built at arrival and put
connect(k, userId, userType) ==
  /\ Len(calls) < MaxCalls
  /\ ~connections[k].exists
  /\ \A c \in DOMAIN calls : calls[c].connectionId # k
  /\ LET call == [WsCall("connect", k) EXCEPT !.user = userId,
                                               !.userType = userType]
     IN  calls' = Append(calls,
                    IF userId = Null \/ userType = Null
                    THEN Response(call, 400, "MissingParameters")
                    ELSE [call EXCEPT !.pc = "co_put"])
  /\ UNCHANGED <<rides, drivers, users, events, connections, pushes>>
  /\ UNCHANGED payvars
  /\ UNCHANGED clientvars

connect_put(c) ==
  /\ InFlight(c) /\ calls[c].pc = "co_put"
  /\ connections' = [connections EXCEPT ![calls[c].connectionId] =
                       [exists |-> TRUE, userId |-> calls[c].user,
                        userType |-> calls[c].userType,
                        connectedAt |-> calls[c].now,
                        lastActivity |-> calls[c].now,
                        disconnectedAt |-> Absent]]
  /\ calls' = [calls EXCEPT ![c] = Response(calls[c], 200, "none")]
  /\ UNCHANGED <<rides, drivers, users, events, pushes>>
  /\ UNCHANGED payvars
  /\ UNCHANGED clientvars

\* (mutant) the item of a closed connection is deleted
disconnect_update_Deletes(c) ==
  /\ InFlight(c) /\ calls[c].pc = "dc_update"
  /\ connections' = [connections EXCEPT ![calls[c].connectionId] = NoConnection]
  /\ calls' = [calls EXCEPT ![c] = Response(calls[c], 200, "none")]
  /\ UNCHANGED <<rides, drivers, users, events, pushes>>
  /\ UNCHANGED payvars
  /\ UNCHANGED clientvars

\* disconnect: SET disconnectedAt = :disconnectedAt, whatever the item holds
disconnect(k) ==
  /\ Len(calls) < MaxCalls
  /\ calls' = Append(calls, [WsCall("disconnect", k) EXCEPT !.pc = "dc_update"])
  /\ UNCHANGED <<rides, drivers, users, events, connections, pushes>>
  /\ UNCHANGED payvars
  /\ UNCHANGED clientvars

disconnect_update(c) ==
  /\ InFlight(c) /\ calls[c].pc = "dc_update"
  /\ connections' = [connections EXCEPT ![calls[c].connectionId] =
                       [@ EXCEPT !.exists = TRUE,
                                 !.disconnectedAt = calls[c].now]]
  /\ calls' = [calls EXCEPT ![c] = Response(calls[c], 200, "none")]
  /\ UNCHANGED <<rides, drivers, users, events, pushes>>
  /\ UNCHANGED payvars
  /\ UNCHANGED clientvars

\* UserConnectionsIndex: userId = :userId, attribute_not_exists(disconnectedAt)
getUserConnections_All(table, userId) ==
  SelectSeq(ConnOrder, LAMBDA k : table[k].exists /\ table[k].userId = userId)

getUserConnections(table, userId) ==
  SelectSeq(ConnOrder, LAMBDA k : /\ table[k].exists
                                  /\ table[k].userId = userId
                                  /\ table[k].disconnectedAt = Absent)

\* what a handler does after a send: the next connection of the target, the
\* next target, or the return of message / broadcast
NextSend(call) ==
  IF call.conns # <<>> THEN [call EXCEPT !.pc = "send_post"]
  ELSE IF call.targets # <<>> THEN [call EXCEPT !.pc = "ms_lookup"]
  ELSE Response(call, 200, "none")

\* message: the body is parsed at arrival
message(k, action, userId, rideId) ==
  /\ Len(calls) < MaxCalls
  /\ calls' = Append(calls, [WsCall("message", k) EXCEPT
                               !.action = action, !.user = userId,
                               !.rideId = rideId, !.pc = "ms_touch"])
  /\ UNCHANGED <<rides, drivers, users, events, connections, pushes>>
  /\ UNCHANGED payvars
  /\ UNCHANGED clientvars

\* (mutant) the touch rewrites the item as a live connection
message_touch_Revives(c) ==
  /\ InFlight(c) /\ calls[c].pc = "ms_touch"
  /\ connections' = [connections EXCEPT ![calls[c].connectionId] =
                       [@ EXCEPT !.exists = TRUE,
                                 !.lastActivity = calls[c].now,
                                 !.disconnectedAt = Absent]]
  /\ LET call == calls[c]
     IN  calls' = [calls EXCEPT ![c] =
           CASE call.action = "location_update" ->
                  IF call.rideId = 0 THEN Response(call, 200, "none")
                  ELSE [call EXCEPT !.pc = "ms_getRide"]
             [] call.action = "ride_status_update" ->
                  [call EXCEPT !.pc = "ms_getRide"]
             [] call.action = "ping" ->
                  [call EXCEPT !.pc = "send_post", !.type = "pong",
                               !.conns = <<call.connectionId>>]
             [] OTHER -> Response(call, 200, "none")]
  /\ UNCHANGED <<rides, drivers, users, events, pushes>>
  /\ UNCHANGED payvars
  /\ UNCHANGED clientvars

\* SET lastActivity, then the switch on the action
message_touch(c) ==
  /\ InFlight(c) /\ calls[c].pc = "ms_touch"
  /\ connections' = [connections EXCEPT ![calls[c].connectionId] =
                       [@ EXCEPT !.exists = TRUE,
                                 !.lastActivity = calls[c].now]]
  /\ LET call == calls[c]
     IN  calls' = [calls EXCEPT ![c] =
           CASE call.action = "location_update" ->
                  IF call.rideId = 0 THEN Response(call, 200, "none")
                  ELSE [call EXCEPT !.pc = "ms_getRide"]
             [] call.action = "ride_status_update" ->
                  [call EXCEPT !.pc = "ms_getRide"]
             [] call.action = "ping" ->
                  [call EXCEPT !.pc = "send_post", !.type = "pong",
                               !.conns = <<call.connectionId>>]
             [] OTHER -> Response(call, 200, "none")]
  /\ UNCHANGED <<rides, drivers, users, events, pushes>>
  /\ UNCHANGED payvars
  /\ UNCHANGED clientvars

\* handleLocationUpdate, handleRideStatusUpdate: the ride and its targets
message_getRide(c) ==
  /\ InFlight(c) /\ calls[c].pc = "ms_getRide"
  /\ LET call == calls[c]
         ride == IF call.rideId \in DOMAIN rides THEN rides[call.rideId]
                 ELSE NoRide
         both == <<ride.userId, ride.driverId>>
         targetUsers == IF call.action = "location_update"
                        THEN SelectSeq(both, LAMBDA id : id # call.user)
                        ELSE both
     IN  calls' = [calls EXCEPT ![c] =
                    IF ~ride.exists THEN Response(call, 200, "none")
                    ELSE NextSend([call EXCEPT !.type = call.action,
                                               !.targets = targetUsers])]
  /\ UNCHANGED <<rides, drivers, users, events, connections, pushes>>
  /\ UNCHANGED payvars
  /\ UNCHANGED clientvars

\* for (const targetUserId of targetUsers): the connections of one target
message_lookup(c) ==
  /\ InFlight(c) /\ calls[c].pc = "ms_lookup"
  /\ LET call == calls[c]
     IN  calls' = [calls EXCEPT ![c] =
                    NextSend([call EXCEPT
                                !.conns = getUserConnections(connections,
                                                             Head(call.targets)),
                                !.targets = Tail(call.targets)])]
  /\ UNCHANGED <<rides, drivers, users, events, connections, pushes>>
  /\ UNCHANGED payvars
  /\ UNCHANGED clientvars

\* (mutant) every failed push marks the connection disconnected
sendMessageToConnection_post_AnyErrorGone(c, result) ==
  /\ InFlight(c) /\ calls[c].pc = "send_post"
  /\ LET call == calls[c]
     IN  /\ pushes' = Append(pushes, [connectionId |-> Head(call.conns),
                                      type |-> call.type, call |-> c,
                                      result |-> result])
         /\ calls' = [calls EXCEPT ![c] =
                        IF result # "ok"
                        THEN [call EXCEPT !.pc = "send_mark", !.now = Clock]
                        ELSE NextSend([call EXCEPT !.conns = Tail(call.conns)])]
  /\ UNCHANGED <<rides, drivers, users, events, connections>>
  /\ UNCHANGED payvars
  /\ UNCHANGED clientvars

\* sendMessageToConnection: postToConnection and its answer
sendMessageToConnection_post(c, result) ==
  /\ InFlight(c) /\ calls[c].pc = "send_post"
  /\ LET call == calls[c]
     IN  /\ pushes' = Append(pushes, [connectionId |-> Head(call.conns),
                                      type |-> call.type, call |-> c,
                                      result |-> result])
         /\ calls' = [calls EXCEPT ![c] =
                        IF result = "gone"
                        THEN [call EXCEPT !.pc = "send_mark", !.now = Clock]
                        ELSE NextSend([call EXCEPT !.conns = Tail(call.conns)])]
  /\ UNCHANGED <<rides, drivers, users, events, connections>>
  /\ UNCHANGED payvars
  /\ UNCHANGED clientvars

\* sendMessageToConnection: a gone connection is marked disconnected
sendMessageToConnection_mark(c) ==
  /\ InFlight(c) /\ calls[c].pc = "send_mark"
  /\ LET call == calls[c]
     IN  /\ connections' = [connections EXCEPT ![Head(call.conns)] =
                              [@ EXCEPT !.exists = TRUE,
                                        !.disconnectedAt = call.now]]
         /\ calls' = [calls EXCEPT ![c] =
                        NextSend([call EXCEPT !.conns = Tail(call.conns)])]
  /\ UNCHANGED <<rides, drivers, users, events, pushes>>
  /\ UNCHANGED payvars
  /\ UNCHANGED clientvars

\* broadcast: the body is parsed at arrival
broadcast(userType, excludeUserId) ==
  /\ Len(calls) < MaxCalls
  /\ calls' = Append(calls, [WsCall("broadcast", Null) EXCEPT
                               !.userType = userType, !.user = excludeUserId,
                               !.pc = "bc_query"])
  /\ UNCHANGED <<rides, drivers, users, events, connections, pushes>>
  /\ UNCHANGED payvars
  /\ UNCHANGED clientvars

\* broadcast: the query names no key condition; the table either rejects
\* it or lists every item that passes the filter.  The sends are started
\* together; they touch different connections and are taken in table order.
broadcast_query(c, accepted) ==
  /\ InFlight(c) /\ calls[c].pc = "bc_query"
  /\ LET call == calls[c]
         items == SelectSeq(ConnOrder, LAMBDA k :
                    /\ connections[k].exists
                    /\ connections[k].disconnectedAt = Absent
                    /\ (call.userType = Null
                          \/ connections[k].userType = call.userType))
         found == SelectSeq(items, LAMBDA k :
                    call.user = Null \/ connections[k].userId # call.user)
     IN  calls' = [calls EXCEPT ![c] =
                    IF ~accepted
                    THEN Response(call, 500, "InternalServerError")
                    ELSE NextSend([call EXCEPT !.type = "broadcast",
                                               !.conns = found])]
  /\ UNCHANGED <<rides, drivers, users, events, connections, pushes>>
  /\ UNCHANGED payvars
  /\ UNCHANGED clientvars

(***************************************************************************)
(* The connection registry: ride 1 is matched to driver d1, ride 2 is      *)
(* requested and has no driver; the rider has one connection and the       *)
(* driver two; connections open and close and messages arrive.             *)
(***************************************************************************)
InitConnection(userId, userType) ==
  [exists |-> TRUE, userId |-> userId, userType |-> userType,
   connectedAt |-> InitTime, lastActivity |-> InitTime,
   disconnectedAt |-> Absent]

InitWs ==
  /\ rides = [r \in RideIds |->
                IF r = 1 THEN [InitRide EXCEPT !.driverId = "d1",
                                               !.status = "matched",
                                               !.matchedAt = InitTime]
                ELSE IF r = 2 THEN InitRide
                ELSE NoRide]
  /\ drivers = [u \in Users |->
                  IF u = "d1" THEN [InitDriver(<<5, 5>>) EXCEPT !.status = "busy"]
                  ELSE IF u = "d2" THEN InitDriver(<<19, 5>>)
                  ELSE NoDriver]
  /\ users = [u \in Users |->
                [exists |-> TRUE,
                 userType |-> IF u = "u1" THEN "rider" ELSE "driver",
                 updatedAt |-> InitTime]]
  /\ events = EmptyBag
  /\ calls = <<>>
  /\ connections = [k \in ConnIds |->
                      IF k = "k1" THEN InitConnection("u1", "rider")
                      ELSE IF k \in {"k2", "k3"}
                      THEN InitConnection("d1", "driver")
                      ELSE NoConnection]
  /\ pushes = <<>>
  /\ payments = [p \in PaymentIds |-> NoPayment]
  /\ intents = <<>>
  /\ constructor

ConnectInputs == {<<"k4", "d2", "driver">>, <<"k4", Null, "rider">>}

DisconnectInputs == {"k2", "k3"}

MessageInputs ==
  {<<"k1", "location_update", "u1", 1>>,
   <<"k2", "location_update", "d1", 1>>,
   <<"k1", "ride_status_update", "u1", 1>>,
   <<"k2", "ride_status_update", "d1", 1>>,
   <<"k1", "location_update", "u1", 2>>,
   <<"k1", "location_update", "u1", 0>>,
   <<"k1", "ride_status_update", "u1", 3>>,
   <<"k1", "ping", Null, 0>>,
   <<"k1", "typing", Null, 0>>,
   <<"k2", "location_update", "d1", 2>>,
   <<"k2", "location_update", "u1", 1>>}

BroadcastInputs == {<<"rider", Null>>, <<"driver", "d2">>}

ProceedConnect(c) == connect_put(c)

ProceedDisconnect(c) == disconnect_update(c)

ProceedMessage(c) ==
  \/ message_touch(c)
  \/ message_getRide(c)
  \/ message_lookup(c)

ProceedSend(c) ==
  \/ \E result \in Results : sendMessageToConnection_post(c, result)
  \/ sendMessageToConnection_mark(c)

ProceedBroadcast(c) == \E accepted \in BOOLEAN : broadcast_query(c, accepted)

NextWs ==
  \/ \E i \in ConnectInputs : connect(i[1], i[2], i[3])
  \/ \E k \in DisconnectInputs : disconnect(k)
  \/ \E i \in MessageInputs : message(i[1], i[2], i[3], i[4])
  \/ \E i \in BroadcastInputs : broadcast(i[1], i[2])
  \/ \E c \in 1..MaxCalls : ProceedConnect(c)
  \/ \E c \in 1..MaxCalls : ProceedDisconnect(c)
  \/ \E c \in 1..MaxCalls : ProceedMessage(c)
  \/ \E c \in 1..MaxCalls : ProceedSend(c)
  \/ \E c \in 1..MaxCalls : ProceedBroadcast(c)

SpecWs == InitWs /\ [][NextWs]_vars

(***************************************************************************)
(* user-service: register and getProfile.  The users table is keyed by     *)
(* userId; register reads it with the email as the key and writes the new  *)
(* user under a fresh id.                                                  *)
(***************************************************************************)
Emails == {"e1", "e2"}

\* the ids that uuidv4 hands out to register, in the order it hands them out
AccountIds == <<"a1", "a2", "a3", "a4", "a5">>

\* every key under which the users table is read or written
UserKeys == Users \cup {AccountIds[i] : i \in DOMAIN AccountIds} \cup Emails

NoUser ==
  [exists |-> FALSE, email |-> Null, userType |-> Null, updatedAt |-> NoTime]

UserCall(op, u) ==
  [op |-> op, user |-> u, email |-> Null, userId |-> Null, rideId |-> 0,
   pc |-> "start", now |-> Len(calls) + 2, code |-> 0, error |-> "none"]

\* schemas.user: the email is required and must be an email address
ValidUserBody(b) == b.email \in Emails

\* a user id that no user and no call holds yet
uuidv4_user ==
  AccountIds[1 + Cardinality({i \in DOMAIN AccountIds :
                                 users[AccountIds[i]].exists})
               + Cardinality({c \in DOMAIN calls :
                                 calls[c].op = "register"
                                   /\ calls[c].pc = "rg_put"})]

register(b) ==
  /\ Len(calls) < MaxCalls
  /\ LET call == [UserCall("register", Null) EXCEPT !.email = b.email]
     IN  calls' = Append(calls,
                    IF ValidUserBody(b)
                    THEN [call EXCEPT !.pc = "rg_get"]
                    ELSE Response(call, 400, "ValidationError"))
  /\ UNCHANGED <<rides, drivers, users, events, connections, pushes>>
  /\ UNCHANGED payvars
  /\ UNCHANGED clientvars

\* dbGet with Key { userId: body.email }, then the new user is built
register_get(c) ==
  /\ InFlight(c) /\ calls[c].pc = "rg_get"
  /\ LET call == calls[c]
         existingUser == users[call.email]
     IN  calls' = [calls EXCEPT ![c] =
                    IF existingUser.exists
                    THEN Response(call, 409, "UserAlreadyExists")
                    ELSE [call EXCEPT !.pc = "rg_put", !.userId = uuidv4_user,
                                      !.now = Clock]]
  /\ UNCHANGED <<rides, drivers, users, events, connections, pushes>>
  /\ UNCHANGED payvars
  /\ UNCHANGED clientvars

register_put(c) ==
  /\ InFlight(c) /\ calls[c].pc = "rg_put"
  /\ users' = [users EXCEPT ![calls[c].userId] =
                 [exists |-> TRUE, email |-> calls[c].email,
                  userType |-> "rider", updatedAt |-> NoTime]]
  /\ calls' = [calls EXCEPT ![c] = Response(calls[c], 201, "none")]
  /\ UNCHANGED <<rides, drivers, events, connections, pushes>>
  /\ UNCHANGED payvars
  /\ UNCHANGED clientvars

\* requestRide, acceptRide, updateRideStatus and updateAvailability called
\* without an Authorization header: authHeader.replace(...) on the missing
\* header throws at the top of the try block, whose catch answers 500
UnauthenticatedOps ==
  {"requestRide", "acceptRide", "updateRideStatus", "updateAvailability"}

unauthenticated(op) ==
  /\ Len(calls) < MaxCalls
  /\ calls' = Append(calls, Response(NewCall(op, NoHeader), 500,
                                     "InternalServerError"))
  /\ UNCHANGED <<rides, drivers, users, events, connections, pushes>>
  /\ UNCHANGED payvars
  /\ UNCHANGED clientvars

\* getProfile tests the header before it uses it
getProfile(u) ==
  /\ Len(calls) < MaxCalls
  /\ LET call == UserCall("getProfile", u)
     IN  calls' = Append(calls,
                    IF u = NoHeader
                    THEN Response(call, 401, "NoAuthorizationHeader")
                    ELSE [call EXCEPT !.pc = "gp_get"])
  /\ UNCHANGED <<rides, drivers, users, events, connections, pushes>>
  /\ UNCHANGED payvars
  /\ UNCHANGED clientvars

getProfile_get(c) ==
  /\ InFlight(c) /\ calls[c].pc = "gp_get"
  /\ calls' = [calls EXCEPT ![c] =
                 IF users[calls[c].user].exists
                 THEN Response(calls[c], 200, "none")
                 ELSE Response(calls[c], 404, "UserNotFound")]
  /\ UNCHANGED <<rides, drivers, users, events, connections, pushes>>
  /\ UNCHANGED payvars
  /\ UNCHANGED clientvars

(***************************************************************************)
(* The HTTP API: users register and read their profile, and the ride and   *)
(* driver handlers receive well-formed requests, malformed requests and    *)
(* requests without an Authorization header.                               *)
(***************************************************************************)
InitApi ==
  /\ rides = [r \in RideIds |-> IF r = 1 THEN InitRide ELSE NoRide]
  /\ drivers = [u \in Users |->
                  IF u = "d1" THEN InitDriver(<<5, 5>>)
                  ELSE IF u = "d2" THEN InitDriver(<<19, 5>>)
                  ELSE NoDriver]
  /\ users = [k \in UserKeys |->
                IF k \in Users
                THEN [exists |-> TRUE, email |-> "e0",
                      userType |-> IF k = "u1" THEN "rider" ELSE "driver",
                      updatedAt |-> InitTime]
                ELSE NoUser]
  /\ events = EmptyBag
  /\ calls = <<>>
  /\ connections = [k \in ConnIds |-> NoConnection]
  /\ pushes = <<>>
  /\ payments = [p \in PaymentIds |-> NoPayment]
  /\ intents = <<>>
  /\ constructor

RegisterUserInputs == {[email |-> "e1"], [email |-> "e2"], [email |-> ""]}

ProfileInputs == {"u1", "a1", NoHeader}

ApiRequestInputs ==
  {<<"u1", ValidRide>>, <<"u1", InvalidRide>>}

ApiAcceptInputs == {<<"d1", 1>>, <<"u1", 1>>}

ApiUpdateInputs ==
  {<<"u1", 1, "completed">>, <<"u1", 1, "requested">>, <<"u1", 1, "none">>}

ApiAvailabilityInputs ==
  {<<"d1", "offline", NoLoc>>, <<"d1", "away", <<12, 5>>>>}

ProceedRegisterUser(c) ==
  \/ register_get(c)
  \/ register_put(c)

ProceedProfile(c) == getProfile_get(c)

NextApi ==
  \/ \E b \in RegisterUserInputs : register(b)
  \/ \E u \in ProfileInputs : getProfile(u)
  \/ \E op \in UnauthenticatedOps : unauthenticated(op)
  \/ \E i \in ApiRequestInputs : requestRide(i[1], i[2])
  \/ \E i \in ApiAcceptInputs : acceptRide(i[1], i[2])
  \/ \E i \in ApiUpdateInputs : updateRideStatus(i[1], i[2], i[3])
  \/ \E i \in ApiAvailabilityInputs : updateAvailability(i[1], i[2], i[3])
  \/ \E c \in 1..MaxCalls : ProceedRegisterUser(c)
  \/ \E c \in 1..MaxCalls : ProceedProfile(c)
  \/ \E c \in 1..MaxCalls : ProceedRequest(c)
  \/ \E c \in 1..MaxCalls : ProceedAccept(c)
  \/ \E c \in 1..MaxCalls : ProceedUpdate(c)
  \/ \E c \in 1..MaxCalls : ProceedAvailability(c)

SpecApi == InitApi /\ [][NextApi]_vars

(***************************************************************************)
(* Properties of the ride service (checked under Spec).                    *)
(***************************************************************************)
Terminal == {"completed", "cancelled"}

Assigned == {"matched", "en-route", "arrived", "in-progress", "completed"}

LegalEdges ==
  {<<"none", "requested">>, <<"requested", "matched">>,
   <<"matched", "en-route">>, <<"en-route", "arrived">>,
   <<"arrived", "in-progress">>, <<"in-progress", "completed">>}
    \cup ({"requested", "matched", "en-route", "arrived", "in-progress"}
            \X {"cancelled"})

\* the calls so far are acceptRide calls of distinct drivers, available at
\* the start, on ride 1, requested at the start, and all have returned
AcceptRace ==
  /\ Len(calls) >= 1
  /\ \A c \in DOMAIN calls :
       /\ calls[c].op = "acceptRide" /\ calls[c].rideId = 1
       /\ calls[c].user \in {"d1", "d2"} /\ calls[c].pc = "done"
  /\ \A c1, c2 \in DOMAIN calls : calls[c1].user = calls[c2].user => c1 = c2

\* C1: of the concurrent acceptRide calls of distinct available drivers on
\* one requested ride exactly one reports success, every other returns
\* AlreadyMatched (409), and the ride's driverId is the winner's id.
C1_ExactlyOneAcceptSucceeds ==
  AcceptRace =>
    \E w \in DOMAIN calls :
      /\ calls[w].code = 200
      /\ rides[1].driverId = calls[w].user
      /\ \A c \in DOMAIN calls \ {w} :
           calls[c].code = 409 /\ calls[c].error = "AlreadyMatched"

\* C2: after concurrent acceptRide calls of two available drivers on one
\* requested ride, the driver that is not the ride's driverId is still
\* available: a losing acceptRide never sets its driver to busy.
C2_LoserStaysAvailable ==
  AcceptRace =>
    \A d \in {"d1", "d2"} :
      d # rides[1].driverId => drivers[d].status = "available"

\* C3: every change of a ride's status follows one edge of requested ->
\* matched -> en-route -> arrived -> in-progress -> completed, or goes from
\* a non-terminal state to cancelled.
C3_OnlyLegalEdges ==
  [][\A r \in RideIds :
       rides'[r].status # rides[r].status =>
         <<rides[r].status, rides'[r].status>> \in LegalEdges]_vars

\* C4: a ride's driverId is non-null if and only if its state is one of
\* matched, en-route, arrived, in-progress, completed.
C4_DriverIdIffAssigned ==
  \A r \in RideIds :
    rides[r].exists => (rides[r].driverId # Null <=> rides[r].status \in Assigned)

\* C5: an updateRideStatus call that finds the ride completed or cancelled
\* is rejected and changes no field of the ride record.
C5_TerminalRideImmutable ==
  [][\A c \in DOMAIN calls :
       (/\ calls[c].pc = "us_updateRide"
        /\ calls'[c].pc # "us_updateRide"
        /\ calls[c].ride.status \in Terminal)
         => rides'[calls[c].rideId] = rides[calls[c].rideId]]_vars

\* C6: each rider has at most one ride in a non-terminal state.
C6_OneActiveRidePerRider ==
  \A u \in Users :
    Cardinality({r \in RideIds : /\ rides[r].exists
                                 /\ rides[r].userId = u
                                 /\ rides[r].status \notin Terminal}) <= 1

(***************************************************************************)
(* Properties of getNearbyDrivers (checked under SpecGeo and SpecRank).    *)
(***************************************************************************)
\* this step is a getNearbyDrivers call that returns its list
Answered ==
  /\ Len(calls') = Len(calls) + 1
  /\ calls'[Len(calls')].op = "getNearbyDrivers"
  /\ calls'[Len(calls')].code = 200

Answer == calls'[Len(calls')].out

Query == calls'[Len(calls')].query

Ids(list) == {list[k].driverId : k \in 1..Len(list)}

\* the distance of driver d from the point of query q
DistanceTo(q, d) ==
  calculateDistance(q.lat, q.lng, drivers[d].location[1], drivers[d].location[2])

\* driver d is stored in one of the buckets that query q reads
InQueriedBucket(q, d) ==
  LET hashes == generateNearbyLocationHashes(q.lat, q.lng, q.radius)
  IN  \E k \in 1..Len(hashes) : hashes[k] = drivers[d].locationHash

\* the drivers a query is to return: available, active and within the radius
Qualifying(q) ==
  {d \in DOMAIN drivers :
     /\ drivers[d].exists /\ drivers[d].status = "available"
     /\ drivers[d].isActive /\ drivers[d].location # NoLoc
     /\ DistanceTo(q, d) <= Km(q.radius)}

\* C7: every driver getNearbyDrivers returns lies within the radius of the
\* query point, whatever bucket it is stored in.
C7_NoFalsePositives ==
  [][Answered =>
       \A d \in Ids(Answer) :
         drivers[d].location # NoLoc /\ DistanceTo(Query, d) <= Km(Query.radius)]_vars

\* a query returned a driver and left out an available, active driver that
\* is stored in one of the queried buckets but lies outside the radius
C7_Witness ==
  \E c \in DOMAIN calls :
    /\ calls[c].op = "getNearbyDrivers" /\ calls[c].code = 200
    /\ Len(calls[c].out) >= 1
    /\ \E d \in DOMAIN drivers \ Ids(calls[c].out) :
         /\ drivers[d].status = "available" /\ drivers[d].isActive
         /\ InQueriedBucket(calls[c].query, d)
         /\ DistanceTo(calls[c].query, d) > Km(calls[c].query.radius)

\* C8: getNearbyDrivers returns every available, active driver within the
\* radius, whenever there are at most 10 of them.
C8_NoFalseNegatives ==
  [][Answered =>
       (Cardinality(Qualifying(Query)) <= MaxResults
          => Qualifying(Query) \subseteq Ids(Answer))]_vars

\* C9: getNearbyDrivers returns only drivers whose current status is
\* available and whose active flag is true.
C9_OnlyAvailableActive ==
  [][Answered =>
       \A d \in Ids(Answer) :
         drivers[d].status = "available" /\ drivers[d].isActive]_vars

\* a query returned a driver and left out a registered driver that is busy
\* or offline although it is stored in a queried bucket within the radius
C9_Witness ==
  \E c \in DOMAIN calls :
    /\ calls[c].op = "getNearbyDrivers" /\ calls[c].code = 200
    /\ Len(calls[c].out) >= 1
    /\ \E d \in DOMAIN drivers \ Ids(calls[c].out) :
         /\ drivers[d].isActive
         /\ drivers[d].status \in {"busy", "offline"}
         /\ drivers[d].location # NoLoc
         /\ InQueriedBucket(calls[c].query, d)
         /\ DistanceTo(calls[c].query, d) <= Km(calls[c].query.radius)

\* the score of driver d for query q
DriverScore(q, d) == (3000 * drivers[d].rating) - (7 * DistanceTo(q, d))

\* C10: the list is ordered best-first by score, holds at most 10 drivers,
\* and when more than 10 drivers qualify the 10 returned are those with the
\* highest scores.
C10_BestTenFirst ==
  [][Answered =>
       /\ \A k \in 1..(Len(Answer) - 1) :
            DriverScore(Query, Answer[k].driverId)
              >= DriverScore(Query, Answer[k + 1].driverId)
       /\ Len(Answer) <= MaxResults
       /\ Cardinality(Qualifying(Query)) > MaxResults =>
            /\ Len(Answer) = MaxResults
            /\ \A d \in Qualifying(Query) \ Ids(Answer) :
                 \A k \in 1..Len(Answer) :
                   DriverScore(Query, Answer[k].driverId)
                     >= DriverScore(Query, d)]_vars

(***************************************************************************)
(* Properties of the connection registry (checked under SpecWs).           *)
(***************************************************************************)
\* call c completes its disconnect in this step
Deregisters(c) ==
  /\ c \in DOMAIN calls /\ calls[c].op = "disconnect"
  /\ calls[c].pc = "dc_update" /\ calls'[c].pc = "done"

\* an earlier disconnect of the connection of call c has returned
SecondDeregister(c) ==
  \E c0 \in DOMAIN calls :
    /\ c0 # c /\ calls[c0].op = "disconnect" /\ calls[c0].pc = "done"
    /\ calls[c0].connectionId = calls[c].connectionId

\* C11: a second disconnect of the same connection id returns success and
\* leaves the connection record, its disconnect time included, exactly as
\* the first disconnect left it.
C11_DeregisterIdempotent ==
  [][\A c \in DOMAIN calls :
       (Deregisters(c) /\ SecondDeregister(c)) =>
         /\ calls'[c].code = 200
         /\ connections'[calls[c].connectionId] =
              connections[calls[c].connectionId]]_vars

FanoutTypes == {"location_update", "ride_status_update", "broadcast"}

\* the transport has answered a push to connection k with 410/403
Gone(k) ==
  \E i \in DOMAIN pushes :
    pushes[i].connectionId = k /\ pushes[i].result = "gone"

\* a call is about to mark connection k disconnected
Marking(k) ==
  \E c \in DOMAIN calls :
    calls[c].pc = "send_mark" /\ Head(calls[c].conns) = k

\* call c selects the connections of a fanout in this step
Selects(c) ==
  /\ c \in DOMAIN calls /\ calls[c].pc \in {"ms_lookup", "bc_query"}
  /\ calls'[c].pc # calls[c].pc

\* this step pushes a fanout message
Fanned ==
  /\ Len(pushes') = Len(pushes) + 1
  /\ pushes'[Len(pushes')].type \in FanoutTypes

Pushed == pushes'[Len(pushes')]

Sender(c) == connections[calls[c].connectionId].userId

\* C13: a location_update or ride_status_update sent by a party of the
\* ride, naming itself in the payload, is pushed to no connection owned by
\* the sending user.
C13_NoEcho ==
  [][(/\ Fanned
      /\ Pushed.type \in {"location_update", "ride_status_update"}
      /\ Sender(Pushed.call) \in {rides[calls[Pushed.call].rideId].userId,
                                  rides[calls[Pushed.call].rideId].driverId}
      /\ calls[Pushed.call].user = Sender(Pushed.call))
       => connections[Pushed.connectionId].userId # Sender(Pushed.call)]_vars

(***************************************************************************)
(* Properties of the ride handlers' checks (checked under Spec).           *)
(***************************************************************************)
\* call c of operation op moves from position pc in this step
Steps(c, op, pc) ==
  /\ c \in DOMAIN calls /\ calls[c].op = op
  /\ calls[c].pc = pc /\ calls'[c] # calls[c]

\* C14: updateRideStatus by an actor who is neither the rider nor the
\* assigned driver of the ride answers 403 Unauthorized and changes no ride
\* and no driver, in every state of the ride, requested included.
C14_OutsiderRejected ==
  [][\A c \in DOMAIN calls :
       (/\ Steps(c, "updateRideStatus", "us_getRide")
        /\ rides[calls[c].rideId].exists
        /\ rides[calls[c].rideId].userId # calls[c].user
        /\ rides[calls[c].rideId].driverId # calls[c].user)
         => /\ calls'[c].pc = "done" /\ calls'[c].code = 403
            /\ calls'[c].error = "Unauthorized"
            /\ rides' = rides /\ drivers' = drivers]_vars

\* an outsider's updateRideStatus on a requested ride without a driver was
\* answered 403
C14_Witness ==
  \E c \in DOMAIN calls :
    /\ calls[c].op = "updateRideStatus" /\ calls[c].code = 403
    /\ rides[calls[c].rideId].status = "requested"
    /\ rides[calls[c].rideId].driverId = Null
    /\ rides[calls[c].rideId].userId # calls[c].user

\* C15: acceptRide by a driver without a driver record or with a status
\* other than available answers 409 DriverUnavailable and changes neither
\* the ride nor the driver.
C15_UnavailableDriverRejected ==
  [][\A c \in DOMAIN calls :
       (/\ Steps(c, "acceptRide", "ar_getDriver")
        /\ (~drivers[calls[c].user].exists
              \/ drivers[calls[c].user].status # "available"))
         => /\ calls'[c].pc = "done" /\ calls'[c].code = 409
            /\ calls'[c].error = "DriverUnavailable"
            /\ rides' = rides /\ drivers' = drivers]_vars

\* a user without a driver record was answered DriverUnavailable and the
\* ride is still requested without a driver
C15_Witness ==
  \E c \in DOMAIN calls :
    /\ calls[c].op = "acceptRide" /\ calls[c].error = "DriverUnavailable"
    /\ ~drivers[calls[c].user].exists
    /\ rides[calls[c].rideId].status = "requested"
    /\ rides[calls[c].rideId].driverId = Null

\* base fare plus distance times the rate of the class, in cents
FareOf(ride) ==
  250 + ((ride.estimatedDistance
            * (CASE ride.rideType = "standard" -> 120
                 [] ride.rideType = "premium" -> 200
                 [] ride.rideType = "pool" -> 80)) \div Km(1))

FareDetermined(ride) ==
  /\ ride.estimatedDistance =
       calculateDistance(ride.pickupLocation[1], ride.pickupLocation[2],
                         ride.dropoffLocation[1], ride.dropoffLocation[2])
  /\ ride.estimatedFare = FareOf(ride)

\* C16: a ride's estimatedFare is 2.50 + estimatedDistance x rate of its
\* class (standard 1.20, premium 2.00, pool 0.80), a function of the two
\* coordinates and the class alone, and no step changes the estimatedFare
\* or the estimatedDistance of a stored ride.
C16_FareEstimate ==
  [][\A r \in RideIds :
       /\ rides'[r].exists => FareDetermined(rides'[r])
       /\ rides[r].exists =>
            /\ rides'[r].estimatedFare = rides[r].estimatedFare
            /\ rides'[r].estimatedDistance = rides[r].estimatedDistance]_vars

\* a premium ride was requested and then accepted
C16_Witness ==
  \E r \in RideIds :
    /\ rides[r].exists /\ rides[r].rideType = "premium"
    /\ rides[r].status = "matched" /\ FareDetermined(rides[r])

\* call c returns success from acceptRide in this step
AcceptReturns(c) ==
  /\ Steps(c, "acceptRide", "ar_publish")
  /\ calls'[c].pc = "done" /\ calls'[c].code = 200

\* C20: a successful acceptRide writes driverId, status matched and
\* matchedAt to the ride and status busy to the driver, and when it
\* returns the ride belongs to the accepting driver, who is busy while the
\* ride is matched.
C20_AcceptEffect ==
  [][\A c \in DOMAIN calls :
       /\ Steps(c, "acceptRide", "ar_updateRide") =>
            /\ rides'[calls[c].rideId].driverId = calls[c].user
            /\ rides'[calls[c].rideId].status = "matched"
            /\ rides'[calls[c].rideId].matchedAt # NoTime
       /\ Steps(c, "acceptRide", "ar_updateDriver") =>
            drivers'[calls[c].user].status = "busy"
       /\ AcceptReturns(c) =>
            /\ rides'[calls[c].rideId].driverId = calls[c].user
            /\ rides'[calls[c].rideId].matchedAt # NoTime
            /\ (rides'[calls[c].rideId].status = "matched"
                  => drivers'[rides'[calls[c].rideId].driverId].status
                       = "busy")]_vars

(***************************************************************************)
(* Properties of the HTTP API (checked under SpecApi).                     *)
(***************************************************************************)
\* a call arrives in this step
Arrives == Len(calls') = Len(calls) + 1

Arrived == calls'[Len(calls')]

\* the arriving request is authenticated and malformed
Malformed ==
  /\ Arrived.user # NoHeader
  /\ \/ /\ Arrived.op = "requestRide"
        /\ \E p \in {Arrived.body.pickupLocation, Arrived.body.dropoffLocation} :
             \/ p = NoLoc
             \/ p[1] < -90000 \/ p[1] > 90000
             \/ p[2] < -180000 \/ p[2] > 180000
     \/ /\ Arrived.op = "updateRideStatus"
        /\ Arrived.status \notin
             {"en-route", "arrived", "in-progress", "completed", "cancelled"}
     \/ /\ Arrived.op = "updateAvailability"
        /\ Arrived.status \notin {"offline", "available", "busy"}

C18_NoHeaderIs401 ==
  [][(Arrives /\ Arrived.user = NoHeader
        /\ Arrived.op \in {"getProfile", "requestRide", "acceptRide",
                           "updateRideStatus", "updateAvailability"}) =>
       /\ Arrived.pc = "done" /\ Arrived.code = 401
       /\ rides' = rides /\ drivers' = drivers /\ users' = users
       /\ events' = events]_vars

\* C19: no two stored users share an email: a register with an email that
\* an earlier successful register used stores no second user.
C19_UniqueEmail ==
  \A e \in Emails :
    Cardinality({k \in DOMAIN users : users[k].exists /\ users[k].email = e})
      <= 1

(***************************************************************************)
(* Properties of the ride transitions (checked under Spec).                *)
(***************************************************************************)
\* call c of updateRideStatus with target status writes the ride
WritesRide(c, status) ==
  /\ Steps(c, "updateRideStatus", "us_updateRide")
  /\ calls[c].status = status

\* C21: an updateRideStatus to completed stamps completedAt, sets
\* actualFare to estimatedFare unless an actualFare is set, which it keeps,
\* and sets the driver it read as assigned to available; an
\* updateRideStatus to in-progress stamps startedAt and changes no driver.
C21_CompletionEffects ==
  [][\A c \in DOMAIN calls :
       LET r == calls[c].rideId
       IN  /\ WritesRide(c, "completed") =>
                /\ rides'[r].status = "completed"
                /\ rides'[r].completedAt = calls[c].now
                /\ rides'[r].completedAt # NoTime
                /\ rides'[r].actualFare =
                     IF rides[r].actualFare = NoFare
                     THEN rides[r].estimatedFare ELSE rides[r].actualFare
                /\ calls[c].ride.driverId # Null =>
                     calls'[c].pc = "us_updateDriver"
           /\ (Steps(c, "updateRideStatus", "us_updateDriver")
                 /\ calls'[c].pc # "done") =>
                drivers'[calls[c].ride.driverId].status = "available"
           /\ WritesRide(c, "in-progress") =>
                /\ rides'[r].startedAt = calls[c].now
                /\ rides'[r].startedAt # NoTime
           /\ (c \in DOMAIN calls /\ calls[c].op = "updateRideStatus"
                 /\ calls[c].status = "in-progress"
                 /\ calls'[c] # calls[c]) =>
                drivers' = drivers]_vars

\* an updateRideStatus to completed of a ride with a driver has returned
\* success: the ride carries completedAt and its estimated fare as actual
\* fare, and the driver is available with one more ride
C21_Witness ==
  \E c \in DOMAIN calls :
    LET r == calls[c].rideId
        d == calls[c].ride.driverId
    IN  /\ calls[c].op = "updateRideStatus" /\ calls[c].status = "completed"
        /\ calls[c].code = 200 /\ d # Null
        /\ rides[r].status = "completed" /\ rides[r].completedAt # NoTime
        /\ rides[r].actualFare = rides[r].estimatedFare
        /\ drivers[d].status = "available" /\ drivers[d].totalRides = 1

NonTerminal == {"requested", "matched", "en-route", "arrived", "in-progress"}

C24_PublishFailureHidden ==
  [][\A c \in DOMAIN calls :
       (/\ c \in DOMAIN calls /\ calls[c].pc \in PublishingPcs
        /\ calls'[c].pc = "done") =>
         calls'[c].code \in {200, 201}]_vars

\* the event of the transition that call c publishes in this step
Emitted(c) ==
  [type |-> IF calls[c].op = "acceptRide" THEN "Ride Matched"
            ELSE "Ride Status Changed",
   rideId |-> calls[c].rideId,
   userId |-> calls[c].ride.userId,
   driverId |-> IF calls[c].op = "acceptRide" THEN calls[c].user
                ELSE calls[c].ride.driverId,
   status |-> IF calls[c].op = "acceptRide" THEN "matched"
              ELSE calls[c].status,
   fromStatus |-> calls[c].ride.status]

\* C25: a successful acceptRide or updateRideStatus emits exactly one event,
\* which carries the ride id, the status before and after the transition,
\* the rider id and the driver id; a call that is rejected emits none.
C25_OneEventPerTransition ==
  [][\A c \in DOMAIN calls :
       (c \in DOMAIN calls /\ calls[c].op \in {"acceptRide", "updateRideStatus"}
          /\ calls'[c] # calls[c]) =>
         IF calls'[c].pc = "done" /\ calls'[c].code = 200
         THEN events' = events (+) SetToBag({Emitted(c)})
         ELSE events' = events]_vars

(***************************************************************************)
(* Properties of the fanout (checked under SpecWs).                        *)
(***************************************************************************)
\* this step is a push that the transport answers with a transient error
TransientPush ==
  /\ Len(pushes') = Len(pushes) + 1
  /\ Pushed.result = "transient"

\* C23: a push that fails with a transient error changes no stored state:
\* the connection record stays as it is, the call does not push to it
\* again, and it goes on with the remaining connections and targets.
C23_TransientFailureIsInert ==
  [][TransientPush =>
       LET c == Pushed.call
           k == Pushed.connectionId
       IN  /\ connections' = connections
           /\ rides' = rides /\ drivers' = drivers /\ events' = events
           /\ calls'[c].pc # "send_mark"
           /\ calls'[c].conns = Tail(calls[c].conns)
           /\ calls'[c].targets = calls[c].targets
           /\ \A j \in DOMAIN calls'[c].conns : calls'[c].conns[j] # k
           /\ calls'[c].conns # <<>> => calls'[c].pc = "send_post"
           /\ (calls'[c].conns = <<>> /\ calls'[c].targets # <<>>) =>
                calls'[c].pc = "ms_lookup"
           /\ calls'[c].pc = "done" =>
                (calls'[c].conns = <<>> /\ calls'[c].targets = <<>>)]_vars

\* a push failed with a transient error, its connection is still live, and
\* the same call has gone on to push to another connection and returned
C23_Witness ==
  \E i, j \in DOMAIN pushes :
    LET c == pushes[i].call
        k == pushes[i].connectionId
    IN  /\ i < j /\ pushes[i].result = "transient"
        /\ pushes[j].call = c /\ pushes[j].connectionId # k
        /\ connections[k].exists /\ connections[k].disconnectedAt = Absent
        /\ calls[c].pc = "done"
        /\ \A n \in DOMAIN pushes :
             (pushes[n].call = c /\ pushes[n].connectionId = k) => n = i

\* pushes i and j delivered two messages for one ride to one connection
SameRideSameConnection(i, j) ==
  /\ pushes[i].connectionId = pushes[j].connectionId
  /\ pushes[i].result = "ok" /\ pushes[j].result = "ok"
  /\ pushes[i].type \in {"location_update", "ride_status_update"}
  /\ pushes[j].type \in {"location_update", "ride_status_update"}
  /\ calls[pushes[i].call].rideId = calls[pushes[j].call].rideId

\* C26: of two messages for one ride, the one whose processing started
\* first is delivered first to every connection that receives both.
C26_DeliveryInArrivalOrder ==
  \A i, j \in DOMAIN pushes :
    (SameRideSameConnection(i, j) /\ pushes[i].call < pushes[j].call) => i < j

\* C27: no step removes a connection item or its disconnect time, and the
\* connections selected for a target are items of that user without a
\* disconnect time.
C27_ConnectionsRetained ==
  [][/\ \A k \in ConnIds :
          connections[k].exists =>
            /\ connections'[k].exists
            /\ connections[k].disconnectedAt # Absent =>
                 connections'[k].disconnectedAt # Absent
     /\ \A c \in DOMAIN calls :
          (calls[c].pc = "ms_lookup" /\ calls'[c] # calls[c]) =>
            \A j \in DOMAIN calls'[c].conns :
              LET k == calls'[c].conns[j]
              IN  /\ connections[k].exists
                  /\ connections[k].userId = Head(calls[c].targets)
                  /\ connections[k].disconnectedAt = Absent]_vars

\* a connection was closed by disconnect and is still stored with its
\* disconnect time; a later message was fanned out to another connection
\* of its user and not to it
C27_Witness ==
  \E c \in DOMAIN calls, j \in DOMAIN pushes :
    LET k == calls[c].connectionId
        c2 == pushes[j].call
    IN  /\ calls[c].op = "disconnect" /\ calls[c].pc = "done"
        /\ connections[k].exists /\ connections[k].disconnectedAt # Absent
        /\ c2 > c /\ calls[c2].op = "message" /\ calls[c2].pc = "done"
        /\ pushes[j].connectionId # k
        /\ connections[pushes[j].connectionId].userId = connections[k].userId
        /\ \A n \in DOMAIN pushes :
             pushes[n].call = c2 => pushes[n].connectionId # k

(***************************************************************************)
(* The bucket key of a driver (checked under SpecGeo).                     *)
(***************************************************************************)
\* C28: whenever a driver's stored location is non-null, its stored bucket
\* key is the bucket of that location, <<floor(lat*100), floor(lng*100)>>,
\* also after concurrent updateAvailability calls of the same driver.
C28_BucketMatchesLocation ==
  \A d \in Users :
    (drivers[d].exists /\ drivers[d].location # NoLoc) =>
      drivers[d].locationHash =
        <<drivers[d].location[1] \div 10, drivers[d].location[2] \div 10>>

\* two updateAvailability calls of one driver with different locations
\* have both written, the one that arrived first writing last
C28_Witness ==
  /\ Len(calls) >= 2
  /\ calls[1].op = "updateAvailability" /\ calls[2].op = "updateAvailability"
  /\ calls[1].user = calls[2].user
  /\ calls[1].pc = "done" /\ calls[2].pc = "done"
  /\ calls[1].code = 200 /\ calls[2].code = 200
  /\ calls[1].location # NoLoc /\ calls[2].location # NoLoc
  /\ calls[1].location # calls[2].location
  /\ drivers[calls[1].user].location = calls[1].location
  /\ drivers[calls[1].user].updatedAt = calls[1].now

(***************************************************************************)
(* Dispatch: driver d1 is on ride 1, rides 2 and 3 are requested and       *)
(* driver d2 is available; drivers accept rides and change availability    *)
(* while ride 1 is ended.                                                  *)
(***************************************************************************)
InitDispatch ==
  /\ rides = [r \in RideIds |->
                IF r = 1 THEN [InitRide EXCEPT !.driverId = "d1",
                                               !.status = "matched",
                                               !.matchedAt = InitTime]
                ELSE IF r \in {2, 3} THEN InitRide
                ELSE NoRide]
  /\ drivers = [u \in Users |->
                  IF u = "d1" THEN [InitDriver(<<5, 5>>) EXCEPT !.status = "busy"]
                  ELSE IF u = "d2" THEN InitDriver(<<19, 5>>)
                  ELSE NoDriver]
  /\ users = [u \in Users |->
                [exists |-> TRUE,
                 userType |-> IF u = "u1" THEN "rider" ELSE "driver",
                 updatedAt |-> InitTime]]
  /\ events = EmptyBag
  /\ calls = <<>>
  /\ connections = [k \in ConnIds |-> NoConnection]
  /\ pushes = <<>>
  /\ payments = [p \in PaymentIds |-> NoPayment]
  /\ intents = <<>>
  /\ constructor

DispatchAcceptInputs == {<<"d1", 2>>, <<"d2", 2>>, <<"d2", 3>>}

DispatchAvailabilityInputs ==
  {<<"d1", "available", NoLoc>>, <<"d2", "offline", NoLoc>>}

DispatchUpdateInputs ==
  {<<"u1", 1, "completed">>, <<"u1", 1, "cancelled">>, <<"d1", 1, "en-route">>}

NextDispatch ==
  \/ \E i \in DispatchAcceptInputs : acceptRide(i[1], i[2])
  \/ \E i \in DispatchAvailabilityInputs : updateAvailability(i[1], i[2], i[3])
  \/ \E i \in DispatchUpdateInputs : updateRideStatus(i[1], i[2], i[3])
  \/ \E c \in 1..MaxCalls : ProceedAccept(c)
  \/ \E c \in 1..MaxCalls : ProceedAvailability(c)
  \/ \E c \in 1..MaxCalls : ProceedUpdate(c)

SpecDispatch == InitDispatch /\ [][NextDispatch]_vars

\* the unfinished rides a driver is assigned to
UnfinishedRidesOf(d) ==
  {r \in RideIds : /\ rides[r].exists
                   /\ rides[r].driverId = d
                   /\ rides[r].status \in NonTerminal}

\* C29: each driver is the driverId of at most one ride in a non-terminal
\* state.
C29_OneUnfinishedRidePerDriver ==
  \A d \in Users : Cardinality(UnfinishedRidesOf(d)) <= 1

\* the driver of ride r was set busy by a call of acceptRide that succeeded
AcceptedBy(d, r) ==
  \E c \in DOMAIN calls :
    /\ calls[c].op = "acceptRide" /\ calls[c].user = d /\ calls[c].rideId = r
    /\ calls[c].pc = "done" /\ calls[c].code = 200

\* C30: once every call has returned, a driver whose accepted ride is in a
\* terminal state and who is assigned to no unfinished ride is not busy.
C30_DriverReleasedAtTerminal ==
  (\A c \in DOMAIN calls : calls[c].pc = "done") =>
    \A d \in Users, r \in RideIds :
      (/\ rides[r].exists /\ rides[r].driverId = d
       /\ rides[r].status \in Terminal
       /\ AcceptedBy(d, r)
       /\ UnfinishedRidesOf(d) = {}) =>
        drivers[d].status # "busy"

(***************************************************************************)
(* Error responses of the ride service (checked under Spec).               *)
(***************************************************************************)
\* the first call was acceptRide or updateRideStatus, it has returned an
\* error response, and no other call has arrived
OnlyCallFailed ==
  /\ Len(calls) = 1
  /\ calls[1].op \in {"acceptRide", "updateRideStatus"}
  /\ calls[1].pc = "done"
  /\ calls[1].code >= 400

\* C31: when acceptRide or updateRideStatus returns an error response, the
\* ride records and the driver records are as they were before the call.
C31_ErrorLeavesNoUpdate ==
  OnlyCallFailed =>
    /\ rides = [r \in RideIds |-> IF r = 1 THEN InitRide ELSE NoRide]
    /\ drivers = [u \in Users |->
                    IF u = "d1" THEN InitDriver(<<5, 5>>)
                    ELSE IF u = "d2" THEN InitDriver(<<19, 5>>)
                    ELSE NoDriver]

(***************************************************************************)
(* The ride count of a driver (checked under SpecDispatch).                *)
(***************************************************************************)
\* the rides of driver d that have reached completed
CompletedRidesOf(d) ==
  {r \in RideIds : /\ rides[r].exists
                   /\ rides[r].driverId = d
                   /\ rides[r].completedAt # NoTime}

\* C32: once every call has returned, a driver's totalRides is its initial
\* value 0 plus the number of distinct rides assigned to it that have
\* reached completed.
C32_CountsCompletedRides ==
  (\A c \in DOMAIN calls : calls[c].pc = "done") =>
    \A d \in Users :
      drivers[d].exists =>
        drivers[d].totalRides = 0 + Cardinality(CompletedRidesOf(d))

(***************************************************************************)
(* Who may fan out (checked under SpecWs).                                 *)
(***************************************************************************)
\* C33: a location_update or ride_status_update is pushed only when the
\* owner of the sending connection is the ride's rider or assigned driver
\* and the userId of the payload is that owner.
C33_OnlyPartiesFanOut ==
  \A i \in DOMAIN pushes :
    pushes[i].type \in {"location_update", "ride_status_update"} =>
      LET c == pushes[i].call
          ride == rides[calls[c].rideId]
      IN  /\ Sender(c) \in {ride.userId, ride.driverId}
          /\ calls[c].user = Sender(c)

(***************************************************************************)
(* A disconnected connection stays disconnected (checked under SpecWs).    *)
(***************************************************************************)
\* this step is the put of a connect on connection id k
Reconnects(k) ==
  \E c \in DOMAIN calls :
    /\ calls[c].op = "connect" /\ calls[c].connectionId = k
    /\ calls[c].pc = "co_put" /\ calls'[c].pc = "done"

\* this step is a query by call c for the connections to push to
QueriesConnections(c) ==
  /\ calls[c].pc \in {"ms_lookup", "bc_query"}
  /\ calls'[c] # calls[c]

\* C34: a connection with a disconnect time keeps one through every step
\* that is not a connect on its id (inbound message, ping, send, repeated
\* disconnect), and no query of a fanout or broadcast returns it.
C34_DisconnectedStays ==
  [][\A k \in ConnIds :
       (connections[k].exists /\ connections[k].disconnectedAt # Absent) =>
         /\ connections'[k].disconnectedAt # Absent \/ Reconnects(k)
         /\ \A c \in DOMAIN calls :
              QueriesConnections(c) =>
                \A j \in DOMAIN calls'[c].conns : calls'[c].conns[j] # k]_vars

\* a connection was closed by disconnect, an inbound message on the same
\* connection id has touched its lastActivity, and it still has its
\* disconnect time
C34_Witness ==
  \E c1, c2 \in DOMAIN calls :
    LET k == calls[c1].connectionId
    IN  /\ calls[c1].op = "disconnect" /\ calls[c1].pc = "done"
        /\ calls[c2].op = "message" /\ calls[c2].connectionId = k
        /\ calls[c2].pc = "done" /\ c1 < c2
        /\ connections[k].lastActivity = calls[c2].now
        /\ connections[k].disconnectedAt = calls[c1].now

(***************************************************************************)
(* payment-service: processPayment and stripeWebhook.  The handler file    *)
(* takes createResponse, validateToken, dbGet, dbPut, dbQuery and          *)
(* publishEvent from the shared layer; dbUpdate is not among them, so      *)
(* evaluating a call of dbUpdate throws a ReferenceError.                  *)
(***************************************************************************)
\* the answers of stripe.paymentIntents.create: an intent that succeeded
\* (the charge is made), an intent in another status, a thrown card error
StripeResults == {"succeeded", "requires_action", "declined"}

processPayment(u, r) ==
  /\ Len(calls) < MaxCalls
  /\ calls' = Append(calls, [NewCall("processPayment", u) EXCEPT
                               !.rideId = r, !.pc = "pp_getRide"])
  /\ UNCHANGED <<rides, drivers, users, events, payments, intents>>
  /\ UNCHANGED wsvars
  /\ UNCHANGED clientvars

processPayment_getRide(c) ==
  /\ InFlight(c) /\ calls[c].pc = "pp_getRide"
  /\ LET call == calls[c]
         ride == IF call.rideId \in DOMAIN rides THEN rides[call.rideId]
                 ELSE NoRide
     IN  calls' = [calls EXCEPT ![c] =
                    IF ~ride.exists
                    THEN Response(call, 404, "RideNotFound")
                    ELSE IF ride.userId # call.user
                    THEN Response(call, 403, "Unauthorized")
                    ELSE IF ride.status # "completed"
                    THEN Response(call, 400, "RideNotCompleted")
                    ELSE [call EXCEPT !.pc = "pp_query"]]
  /\ UNCHANGED <<rides, drivers, users, events, payments, intents>>
  /\ UNCHANGED wsvars
  /\ UNCHANGED clientvars

\* RidePaymentIndex: rideId = :rideId, filtered on status = completed
QueryRidePayments(rideId) ==
  {p \in PaymentIds : /\ payments[p].exists
                      /\ payments[p].rideId = rideId
                      /\ payments[p].status = "completed"}

processPayment_query(c) ==
  /\ InFlight(c) /\ calls[c].pc = "pp_query"
  /\ calls' = [calls EXCEPT ![c] =
                 IF QueryRidePayments(calls[c].rideId) # {}
                 THEN Response(calls[c], 409, "AlreadyProcessed")
                 ELSE [calls[c] EXCEPT !.pc = "pp_fare"]]
  /\ UNCHANGED <<rides, drivers, users, events, payments, intents>>
  /\ UNCHANGED wsvars
  /\ UNCHANGED clientvars

\* calculateFare reads the ride again; without the ride its answer has no
\* fareBreakdown and reading totalAmount throws.  The amount plays no part
\* in what is stored about the status of a payment and is left out.
processPayment_fare(c) ==
  /\ InFlight(c) /\ calls[c].pc = "pp_fare"
  /\ calls' = [calls EXCEPT ![c] =
                 IF ~rides[calls[c].rideId].exists
                 THEN Response(calls[c], 500, "InternalServerError")
                 ELSE [calls[c] EXCEPT !.pc = "pp_put", !.now = Clock]]
  /\ UNCHANGED <<rides, drivers, users, events, payments, intents>>
  /\ UNCHANGED wsvars
  /\ UNCHANGED clientvars

\* the payment record is put with status processing under a fresh id
processPayment_put(c) ==
  /\ InFlight(c) /\ calls[c].pc = "pp_put"
  /\ payments' = [payments EXCEPT ![c] =
                    [exists |-> TRUE, rideId |-> calls[c].rideId,
                     userId |-> calls[c].user, status |-> "processing",
                     stripePaymentIntentId |-> Absent]]
  /\ calls' = [calls EXCEPT ![c].pc = "pp_stripe"]
  /\ UNCHANGED <<rides, drivers, users, events, intents>>
  /\ UNCHANGED wsvars
  /\ UNCHANGED clientvars

\* stripe.paymentIntents.create with confirm: true.  After an intent is
\* returned the handler evaluates dbUpdate, which throws; the inner catch
\* evaluates dbUpdate as well, which throws again, and the outer catch
\* answers 500.  After a thrown card error the inner catch does the same.
processPayment_stripe(c, result) ==
  /\ InFlight(c) /\ calls[c].pc = "pp_stripe"
  /\ intents' = IF result = "declined" THEN intents
                ELSE Append(intents, [rideId |-> calls[c].rideId,
                                      paymentId |-> c, status |-> result])
  /\ calls' = [calls EXCEPT ![c] =
                 Response(calls[c], 500, "InternalServerError")]
  /\ UNCHANGED <<rides, drivers, users, events, payments>>
  /\ UNCHANGED wsvars
  /\ UNCHANGED clientvars

\* stripeWebhook for intent i: handlePaymentSucceeded and
\* handlePaymentFailed evaluate dbUpdate inside their own try, the error
\* is logged and the webhook is answered 200
stripeWebhook(i) ==
  /\ Len(calls) < MaxCalls
  /\ i \in DOMAIN intents
  /\ calls' = Append(calls, Response([NewCall("stripeWebhook", Null) EXCEPT
                                        !.rideId = intents[i].rideId],
                                     200, "none"))
  /\ UNCHANGED <<rides, drivers, users, events, payments, intents>>
  /\ UNCHANGED wsvars
  /\ UNCHANGED clientvars

(***************************************************************************)
(* Payments: ride 1 of rider u1 with driver d1 is completed, ride 2 with   *)
(* driver d2 is in progress; payments are requested for them, also twice   *)
(* at a time, rides are ended and the provider reports back.               *)
(***************************************************************************)
InitPay ==
  /\ rides = [r \in RideIds |->
                IF r = 1 THEN [InitRide EXCEPT !.driverId = "d1",
                                               !.status = "completed",
                                               !.matchedAt = InitTime,
                                               !.completedAt = InitTime,
                                               !.actualFare =
                                                  InitRide.estimatedFare]
                ELSE IF r = 2 THEN [InitRide EXCEPT !.driverId = "d2",
                                                    !.status = "in-progress",
                                                    !.matchedAt = InitTime,
                                                    !.startedAt = InitTime]
                ELSE NoRide]
  /\ drivers = [u \in Users |->
                  IF u = "d1" THEN [InitDriver(<<5, 5>>) EXCEPT !.totalRides = 1]
                  ELSE IF u = "d2"
                  THEN [InitDriver(<<19, 5>>) EXCEPT !.status = "busy"]
                  ELSE NoDriver]
  /\ users = [u \in Users |->
                [exists |-> TRUE,
                 userType |-> IF u = "u1" THEN "rider" ELSE "driver",
                 updatedAt |-> InitTime]]
  /\ events = EmptyBag
  /\ calls = <<>>
  /\ connections = [k \in ConnIds |-> NoConnection]
  /\ pushes = <<>>
  /\ payments = [p \in PaymentIds |-> NoPayment]
  /\ intents = <<>>
  /\ constructor

PaymentInputs == {<<"u1", 1>>, <<"d1", 1>>, <<"u1", 2>>, <<"u1", 3>>}

PayUpdateInputs == {<<"u1", 2, "completed">>, <<"u1", 1, "cancelled">>}

ProceedPayment(c) ==
  \/ processPayment_getRide(c)
  \/ processPayment_query(c)
  \/ processPayment_fare(c)
  \/ processPayment_put(c)
  \/ \E result \in StripeResults : processPayment_stripe(c, result)

NextPay ==
  \/ \E i \in PaymentInputs : processPayment(i[1], i[2])
  \/ \E i \in PayUpdateInputs : updateRideStatus(i[1], i[2], i[3])
  \/ \E i \in 1..MaxCalls : stripeWebhook(i)
  \/ \E c \in 1..MaxCalls : ProceedPayment(c)
  \/ \E c \in 1..MaxCalls : ProceedUpdate(c)

SpecPay == InitPay /\ [][NextPay]_vars

\* the payment intents of ride r on which the provider made the charge
ChargesOf(r) ==
  {i \in DOMAIN intents : intents[i].rideId = r
                           /\ intents[i].status = "succeeded"}

\* C35: for every ride at most one payment record is completed and the
\* provider has charged at most once; a payment record exists only for a
\* ride that has reached completed and a request of the ride's rider.
C35_ChargedOncePerRide ==
  /\ \A r \in RideIds :
       /\ Cardinality(QueryRidePayments(r)) <= 1
       /\ Cardinality(ChargesOf(r)) <= 1
  /\ \A p \in PaymentIds :
       payments[p].exists =>
         /\ rides[payments[p].rideId].exists
         /\ rides[payments[p].rideId].completedAt # NoTime
         /\ rides[payments[p].rideId].userId = payments[p].userId

(***************************************************************************)
(* The WebSocket client of the web app (WebSocketService).  Its methods    *)
(* are called by the application and by its own timeouts; the handlers     *)
(* it sets on a socket stay on that socket and act on the fields of the    *)
(* service, whichever socket the field ws holds by then.  The error event  *)
(* and the connection timeout only settle the promise of connect and the   *)
(* ping callback only sends; they change none of the fields.               *)
(***************************************************************************)
RECURSIVE Pow2(_)
Pow2(n) == IF n = 0 THEN 1 ELSE 2 * Pow2(n - 1)

Min(S) == CHOOSE x \in S : \A y \in S : x <= y

\* the ids a new socket may take: not created yet, or closed and dropped
FreeSockets ==
  {s \in SocketIds : readyState[s] \in {"none", "closed"} /\ s # ws}

\* the codes of the close event of a socket: a socket that was connecting
\* has failed; otherwise the closing handshake completed or the
\* connection was lost
CloseCodes(s) ==
  IF readyState[s] = "connecting" THEN {1006} ELSE {1000, 1006}

\* connect(userId, userType): returns at once when connected, otherwise
\* creates a socket and sets its handlers
WebSocketService_connect ==
  IF ws # 0 /\ isConnected
  THEN UNCHANGED <<ws, readyState>>
  ELSE /\ FreeSockets # {}
       /\ ws' = Min(FreeSockets)
       /\ readyState' = [readyState EXCEPT ![Min(FreeSockets)] = "connecting"]

startPingInterval ==
  /\ IntervalIds \ intervals # {}
  /\ intervals' = intervals \cup {Min(IntervalIds \ intervals)}
  /\ pingInterval' = Min(IntervalIds \ intervals)

stopPingInterval ==
  IF pingInterval # 0
  THEN /\ intervals' = intervals \ {pingInterval}
       /\ pingInterval' = 0
  ELSE UNCHANGED <<intervals, pingInterval>>

scheduleReconnect ==
  /\ Len(timeouts) < MaxTimeouts
  /\ reconnectAttempts' = reconnectAttempts + 1
  /\ timeouts' = Append(timeouts,
                        reconnectDelay * Pow2((reconnectAttempts + 1) - 1))

\* the application calls connect
userConnect ==
  /\ WebSocketService_connect
  /\ closedByUser' = FALSE
  /\ UNCHANGED <<isConnected, reconnectAttempts, pingInterval, intervals,
                 timeouts>>
  /\ UNCHANGED servervars

\* the application calls disconnect
WebSocketService_disconnect ==
  /\ IF ws # 0
     THEN /\ stopPingInterval
          /\ readyState' = [readyState EXCEPT ![ws] =
                              IF @ \in {"connecting", "open"} THEN "closing"
                              ELSE @]
          /\ ws' = 0
          /\ isConnected' = FALSE
     ELSE UNCHANGED <<intervals, pingInterval, readyState, ws, isConnected>>
  /\ closedByUser' = TRUE
  /\ UNCHANGED <<reconnectAttempts, timeouts>>
  /\ UNCHANGED servervars

\* the open event of socket s
onopen(s) ==
  /\ readyState[s] = "connecting"
  /\ readyState' = [readyState EXCEPT ![s] = "open"]
  /\ isConnected' = TRUE
  /\ reconnectAttempts' = 0
  /\ startPingInterval
  /\ UNCHANGED <<ws, timeouts, closedByUser>>
  /\ UNCHANGED servervars

\* the close event of socket s with the given code
onclose(s, code) ==
  /\ readyState[s] \in {"connecting", "open", "closing"}
  /\ code \in CloseCodes(s)
  /\ readyState' = [readyState EXCEPT ![s] = "closed"]
  /\ isConnected' = FALSE
  /\ stopPingInterval
  /\ IF code # 1000 /\ reconnectAttempts < maxReconnectAttempts
     THEN scheduleReconnect
     ELSE UNCHANGED <<reconnectAttempts, timeouts>>
  /\ UNCHANGED <<ws, closedByUser>>
  /\ UNCHANGED servervars

\* the i-th pending reconnect timeout fires and calls connect
reconnectTimeout(i) ==
  /\ i \in DOMAIN timeouts
  /\ timeouts' = [j \in 1..(Len(timeouts) - 1) |->
                    IF j < i THEN timeouts[j] ELSE timeouts[j + 1]]
  /\ WebSocketService_connect
  /\ UNCHANGED <<isConnected, reconnectAttempts, pingInterval, intervals,
                 closedByUser>>
  /\ UNCHANGED servervars

NextClient ==
  \/ userConnect
  \/ WebSocketService_disconnect
  \/ \E s \in SocketIds : onopen(s)
  \/ \E s \in SocketIds, code \in {1000, 1006} : onclose(s, code)
  \/ \E i \in 1..MaxTimeouts : reconnectTimeout(i)

SpecClient == Init /\ [][NextClient]_vars

\* this step schedules a reconnect
Scheduled == Len(timeouts') = Len(timeouts) + 1

\* C36: a reconnect is scheduled only by a close event whose code is not
\* 1000, only while reconnectAttempts < 5 and never after disconnect();
\* the n-th consecutive attempt is delayed 1000 * 2^(n-1) ms;
\* reconnectAttempts never exceeds 5 and every open resets it to 0.
C36_ReconnectPolicy ==
  [][/\ reconnectAttempts' <= 5
     /\ (\E s \in SocketIds : readyState[s] = "connecting"
                               /\ readyState'[s] = "open") =>
          reconnectAttempts' = 0
     /\ Scheduled =>
          /\ \E s \in SocketIds : onclose(s, 1006)
          /\ \A s \in SocketIds : ~onclose(s, 1000)
          /\ reconnectAttempts < 5
          /\ reconnectAttempts' = reconnectAttempts + 1
          /\ timeouts'[Len(timeouts')] = 1000 * Pow2(reconnectAttempts' - 1)
          /\ ~closedByUser]_vars

\* C37: at most one socket is connecting or open, at most one ping
\* interval is running, and one runs only while isConnected is true.
C37_OneSocketOnePing ==
  /\ Cardinality({s \in SocketIds :
                    readyState[s] \in {"connecting", "open"}}) <= 1
  /\ Cardinality(intervals) <= 1
  /\ intervals # {} => isConnected

====
